---- MODULE Spec2Model ----
(***************************************************************************)
(* The Ogg Opus streaming decoder of micro-opus (OggOpusDecoder) as a      *)
(* state machine.  The decoder object is the record dec, whose fields are  *)
(* the members of the class; every member function is an operator from a   *)
(* decoder record (and the arguments of the call) to the decoder record    *)
(* after the call and the values handed back to the caller.  The Ogg       *)
(* demuxer and the Opus codec are collaborators outside the repository:    *)
(* what they return to the decoder is chosen by the environment.           *)
(***************************************************************************)
EXTENDS Integers, Sequences, FiniteSets, TLC

VARIABLES
    dec,    \* the OggOpusDecoder instance (one record field per data member)
    fed,    \* packets the demuxer has handed out since it was (re)started
    reported,   \* sum of the samples_decoded values handed back to the caller
                \* since construction or the last reset()
    run,    \* the caller's side of a session that feeds one stream in chunks
    hdr,    \* a call of parse_opus_head: its arguments and what it returned
    loop,   \* a caller's decode loop: its output buffer, its chunk size, whether
            \* it has left the loop, and a mark that flips with every call
    page,   \* the packet source's side of a page sequence: where the next
            \* packet lies on its page
    peer,   \* a second OggOpusDecoder instance of the same thread, and both
            \* instances as they would be if each were driven alone
    tls     \* thread_local_stack.c: its statics, and each thread's
            \* thread-local pointers and position

vars == <<dec, fed, reported, run, hdr, loop, page, peer, tls>>

(***************************************************************************)
(* Bounds of the model.                                                    *)
(***************************************************************************)
MaxPackets == 4     \* packets the packet source delivers between resets
MaxInputLen == 1    \* largest input_len a caller passes
MaxTable == 3       \* entries of channel_mapping_table the model keeps
MaxChunk == 12      \* largest chunk a caller feeds (the longest stream at once)

(***************************************************************************)
(* Enumerations and constants of the sources.                              *)
(***************************************************************************)
OGG_OPUS_OK == "OGG_OPUS_OK"
OGG_OPUS_INPUT_INVALID == "OGG_OPUS_INPUT_INVALID"
OGG_OPUS_NOT_INITIALIZED == "OGG_OPUS_NOT_INITIALIZED"
OGG_OPUS_ALLOCATION_FAILED == "OGG_OPUS_ALLOCATION_FAILED"
OGG_OPUS_OUTPUT_BUFFER_TOO_SMALL == "OGG_OPUS_OUTPUT_BUFFER_TOO_SMALL"
OGG_OPUS_DECODE_ERROR == "OGG_OPUS_DECODE_ERROR"

OggOpusResult ==
    { OGG_OPUS_OK, OGG_OPUS_INPUT_INVALID, OGG_OPUS_NOT_INITIALIZED,
      OGG_OPUS_ALLOCATION_FAILED, OGG_OPUS_OUTPUT_BUFFER_TOO_SMALL,
      OGG_OPUS_DECODE_ERROR }

STATE_EXPECT_OPUS_HEAD == "STATE_EXPECT_OPUS_HEAD"
STATE_EXPECT_OPUS_TAGS == "STATE_EXPECT_OPUS_TAGS"
STATE_DECODING == "STATE_DECODING"

OPUS_HEADER_OK == "OPUS_HEADER_OK"
OPUS_HEADER_INVALID_MAGIC == "OPUS_HEADER_INVALID_MAGIC"
OPUS_HEADER_INVALID_VERSION == "OPUS_HEADER_INVALID_VERSION"
OPUS_HEADER_TOO_SHORT == "OPUS_HEADER_TOO_SHORT"
OPUS_HEADER_INVALID_CHANNELS == "OPUS_HEADER_INVALID_CHANNELS"
OPUS_HEADER_INVALID_MAPPING == "OPUS_HEADER_INVALID_MAPPING"

\* results of micro_ogg::OggDemuxer::getNextPacket
OGG_OK == "OGG_OK"
OGG_NEED_MORE_DATA == "OGG_NEED_MORE_DATA"
OGG_PACKET_SKIPPED == "OGG_PACKET_SKIPPED"
OGG_INVALID_CAPTURE == "OGG_INVALID_CAPTURE"
OGG_INVALID_VERSION == "OGG_INVALID_VERSION"
OGG_CRC_FAILED == "OGG_CRC_FAILED"
OGG_STREAM_SEQUENCE_ERROR == "OGG_STREAM_SEQUENCE_ERROR"
OGG_STREAM_BOS_ERROR == "OGG_STREAM_BOS_ERROR"
OGG_STREAM_EOS_ERROR == "OGG_STREAM_EOS_ERROR"
OGG_STREAM_SERIAL_MISMATCH == "OGG_STREAM_SERIAL_MISMATCH"
OGG_ALLOCATION_FAILED == "OGG_ALLOCATION_FAILED"

\* the error results of getNextPacket that decode() names
OggErrors ==
    { OGG_INVALID_CAPTURE, OGG_INVALID_VERSION, OGG_CRC_FAILED, OGG_STREAM_SEQUENCE_ERROR,
      OGG_STREAM_BOS_ERROR, OGG_STREAM_EOS_ERROR, OGG_STREAM_SERIAL_MISMATCH,
      OGG_ALLOCATION_FAILED }

OPUS_DEFAULT_SAMPLE_RATE == 48000
OPUS_SAMPLE_RATE_8K == 8000
OPUS_SAMPLE_RATE_12K == 12000
OPUS_SAMPLE_RATE_16K == 16000
OPUS_SAMPLE_RATE_24K == 24000
OPUS_SAMPLE_RATE_48K == 48000
max_opus_packet_size == 61440
max_opus_tags_size == 125829120
min_opus_tags_size == 16
OPUS_MAGIC_SIGNATURE_SIZE == 8
MIN_OPUS_HEAD_SIZE == 19
MIN_OPUS_HEAD_SIZE_WITH_MAPPING == 21
OPUS_HEAD_CHANNEL_MAPPING_OFFSET == 10
OPUS_HEAD_STREAM_COUNT_OFFSET == 11
OPUS_HEAD_COUPLED_COUNT_OFFSET == 12
SizeofInt16 == 2
INT_MAX == 2147483647
\* a negative libopus error code (OPUS_INVALID_PACKET)
OPUS_INVALID_PACKET == 0 - 4

(***************************************************************************)
(* Packets.  A packet is [bytes, length, nb48, codec_ok]: bytes are the    *)
(* leading octets the decoder inspects (ASCII codes), length is            *)
(* OggPacket::length, and nb48 / codec_ok are what the Opus codec answers  *)
(* for these octets: the sample count of the packet at 48 kHz (an error    *)
(* code <= 0 when the framing byte is invalid) and whether opus_decode     *)
(* accepts the payload.                                                    *)
(***************************************************************************)
OpusHeadMagic == <<79, 112, 117, 115, 72, 101, 97, 100>>   \* "OpusHead"
OpusTagsMagic == <<79, 112, 117, 115, 84, 97, 103, 115>>   \* "OpusTags"

le16(v) == <<v % 256, (v \div 256) % 256>>
le32(v) == <<v % 256, (v \div 256) % 256, (v \div 65536) % 256, (v \div 16777216) % 256>>

\* The octets of an OpusHead packet (RFC 7845 section 5.1) with the given fields;
\* rest is the channel mapping part that follows the family octet.
HeadBytes(version, channels, pre_skip, rate, gain, family, rest) ==
    OpusHeadMagic \o <<version, channels>> \o le16(pre_skip) \o le32(rate)
        \o le16(gain) \o <<family>> \o rest

\* A header packet: the codec is never asked about a well-placed header; a
\* header that reaches the codec is refused (RFC 6716: the framing octet 'O'
\* with the count octet 'p' announces 48 frames of 20 ms, over the 120 ms limit).
HeaderPacket(b) ==
    [bytes |-> b, length |-> Len(b), nb48 |-> OPUS_INVALID_PACKET, codec_ok |-> FALSE]

AudioPacket(toc, len, nb48, ok) ==
    [bytes |-> IF len = 0 THEN <<>> ELSE <<toc>>, length |-> len, nb48 |-> nb48,
     codec_ok |-> ok]

PktHeadStereo == HeaderPacket(HeadBytes(1, 2, 312, 48000, 0, 0, <<>>))
PktHeadMono == HeaderPacket(HeadBytes(1, 1, 0, 44100, 256, 0, <<>>))
PktHeadSurround == HeaderPacket(HeadBytes(1, 3, 1000, 48000, 0, 1, <<1, 1, 0, 1, 255>>))
PktHeadBadVersion == HeaderPacket(HeadBytes(2, 2, 312, 48000, 0, 0, <<>>))
PktTags == HeaderPacket(OpusTagsMagic \o <<0, 0, 0, 0, 0, 0, 0, 0>>)
PktTagsShort == HeaderPacket(OpusTagsMagic \o <<0, 0, 0, 0>>)
PktAudio20ms == AudioPacket(252, 3, 960, TRUE)
PktAudio10ms == AudioPacket(244, 3, 480, TRUE)
PktAudioCorrupt == AudioPacket(252, 3, 960, FALSE)
PktAudioEmpty == AudioPacket(0, 0, OPUS_INVALID_PACKET, FALSE)
PktAudioHuge == AudioPacket(252, max_opus_packet_size + 1, 960, TRUE)

Catalogue ==
    << PktHeadStereo, PktHeadMono, PktHeadSurround, PktHeadBadVersion,
       PktTags, PktTagsShort,
       PktAudio20ms, PktAudio10ms, PktAudioCorrupt, PktAudioEmpty, PktAudioHuge >>

(***************************************************************************)
(* opus_header.cpp: the header parser.                                     *)
(***************************************************************************)
\* packet[i] for an OggPacket (0-based, as in the source)
Byte(packet, i) == IF i < Len(packet.bytes) THEN packet.bytes[i + 1] ELSE 0

HasPrefix(packet, magic) ==
    /\ Len(packet.bytes) >= OPUS_MAGIC_SIGNATURE_SIZE
    /\ \A i \in 1..OPUS_MAGIC_SIGNATURE_SIZE : packet.bytes[i] = magic[i]

read_le16(packet, at) == Byte(packet, at) + 256 * Byte(packet, at + 1)

read_le32(packet, at) ==
    Byte(packet, at) + 256 * Byte(packet, at + 1) + 65536 * Byte(packet, at + 2)
        + 16777216 * Byte(packet, at + 3)

\* the conversion (int16_t) of a 16 bit value
AsInt16(v) == IF v >= 32768 THEN v - 65536 ELSE v

is_opus_head(packet) ==
    IF packet.length < OPUS_MAGIC_SIGNATURE_SIZE THEN FALSE
    ELSE HasPrefix(packet, OpusHeadMagic)

is_opus_tags(packet) ==
    IF packet.length < OPUS_MAGIC_SIGNATURE_SIZE THEN FALSE
    ELSE HasPrefix(packet, OpusTagsMagic)

\* std::make_unique<OpusHead>(): a value-initialised (all zero) structure
ZeroTable == [i \in 1..MaxTable |-> 0]

ZeroHead ==
    [version |-> 0, channel_count |-> 0, pre_skip |-> 0, input_sample_rate |-> 0,
     output_gain |-> 0, channel_mapping |-> 0, stream_count |-> 0,
     coupled_count |-> 0, channel_mapping_table |-> ZeroTable]

\* the family-specific checks with the stream checks of family 1 ahead of its
\* channel count bound
FamilyConstraints_streams_before_channels(head) ==
    IF head.channel_mapping = 0 THEN
        IF head.channel_count > 2 THEN OPUS_HEADER_INVALID_CHANNELS ELSE OPUS_HEADER_OK
    ELSE IF head.stream_count = 0 THEN OPUS_HEADER_INVALID_MAPPING
    ELSE IF head.coupled_count > head.stream_count THEN OPUS_HEADER_INVALID_MAPPING
    ELSE IF head.channel_mapping = 1 /\ head.channel_count > 8
    THEN OPUS_HEADER_INVALID_CHANNELS
    ELSE OPUS_HEADER_OK

\* the family-specific checks without the comparison of coupled_count with
\* stream_count
FamilyConstraints_no_coupled_check(head) ==
    IF head.channel_mapping = 0 THEN
        IF head.channel_count > 2 THEN OPUS_HEADER_INVALID_CHANNELS ELSE OPUS_HEADER_OK
    ELSE IF head.channel_mapping = 1 /\ head.channel_count > 8
    THEN OPUS_HEADER_INVALID_CHANNELS
    ELSE IF head.stream_count = 0 THEN OPUS_HEADER_INVALID_MAPPING
    ELSE OPUS_HEADER_OK

\* The family-specific checks that end parse_opus_head.
FamilyConstraints(head) ==
    IF head.channel_mapping = 0 THEN
        IF head.channel_count > 2 THEN OPUS_HEADER_INVALID_CHANNELS ELSE OPUS_HEADER_OK
    ELSE IF head.channel_mapping = 1 THEN
        IF head.channel_count > 8 THEN OPUS_HEADER_INVALID_CHANNELS
        ELSE IF head.stream_count = 0 THEN OPUS_HEADER_INVALID_MAPPING
        ELSE IF head.coupled_count > head.stream_count THEN OPUS_HEADER_INVALID_MAPPING
        ELSE OPUS_HEADER_OK
    ELSE
        IF head.stream_count = 0 THEN OPUS_HEADER_INVALID_MAPPING
        ELSE IF head.coupled_count > head.stream_count THEN OPUS_HEADER_INVALID_MAPPING
        ELSE OPUS_HEADER_OK

\* parse_opus_head(packet, packet_len, head): the result code and the structure
\* as the call leaves it (fields written before a failing check stay written).
parse_opus_head(packet, head) ==
    IF ~is_opus_head(packet) THEN [result |-> OPUS_HEADER_INVALID_MAGIC, head |-> head]
    ELSE IF packet.length < MIN_OPUS_HEAD_SIZE THEN
        [result |-> OPUS_HEADER_TOO_SHORT, head |-> head]
    ELSE
        LET h1 == [head EXCEPT
                     !.version = Byte(packet, OPUS_MAGIC_SIGNATURE_SIZE + 0),
                     !.channel_count = Byte(packet, OPUS_MAGIC_SIGNATURE_SIZE + 1),
                     !.pre_skip = read_le16(packet, OPUS_MAGIC_SIGNATURE_SIZE + 2),
                     !.input_sample_rate = read_le32(packet, OPUS_MAGIC_SIGNATURE_SIZE + 4),
                     !.output_gain = AsInt16(read_le16(packet, OPUS_MAGIC_SIGNATURE_SIZE + 8)),
                     !.channel_mapping =
                         Byte(packet, OPUS_MAGIC_SIGNATURE_SIZE + OPUS_HEAD_CHANNEL_MAPPING_OFFSET)]
        IN
        IF h1.version # 1 THEN [result |-> OPUS_HEADER_INVALID_VERSION, head |-> h1]
        ELSE IF h1.channel_count = 0 THEN
            [result |-> OPUS_HEADER_INVALID_CHANNELS, head |-> h1]
        ELSE IF h1.channel_mapping # 0 THEN
            IF packet.length < MIN_OPUS_HEAD_SIZE_WITH_MAPPING + h1.channel_count THEN
                [result |-> OPUS_HEADER_TOO_SHORT, head |-> h1]
            ELSE
                LET h2 == [h1 EXCEPT
                             !.stream_count =
                                 Byte(packet, OPUS_MAGIC_SIGNATURE_SIZE + OPUS_HEAD_STREAM_COUNT_OFFSET),
                             !.coupled_count =
                                 Byte(packet, OPUS_MAGIC_SIGNATURE_SIZE + OPUS_HEAD_COUPLED_COUNT_OFFSET),
                             !.channel_mapping_table =
                                 [i \in 1..MaxTable |->
                                     IF i - 1 < h1.channel_count
                                     THEN Byte(packet, MIN_OPUS_HEAD_SIZE_WITH_MAPPING + i - 1)
                                     ELSE h1.channel_mapping_table[i]]]
                    total_streams == h2.stream_count + h2.coupled_count
                IN
                IF \E i \in 0..(h2.channel_count - 1) :
                       /\ Byte(packet, MIN_OPUS_HEAD_SIZE_WITH_MAPPING + i) >= total_streams
                       /\ Byte(packet, MIN_OPUS_HEAD_SIZE_WITH_MAPPING + i) # 255
                THEN [result |-> OPUS_HEADER_INVALID_MAPPING, head |-> h2]
                ELSE [result |-> FamilyConstraints(h2), head |-> h2]
        ELSE
            LET h2 == [h1 EXCEPT
                         !.stream_count = 1,
                         !.coupled_count = IF h1.channel_count = 2 THEN 1 ELSE 0,
                         !.channel_mapping_table = ZeroTable]
            IN [result |-> FamilyConstraints(h2), head |-> h2]

(***************************************************************************)
(* ogg_opus_decoder.cpp: the decoder.                                      *)
(*                                                                         *)
(* A call record c carries the arguments of decode() and the answers of    *)
(* the collaborators during that call:                                     *)
(*   input, output      TRUE for a non-null pointer                        *)
(*   input_len, output_size                                                *)
(*   status, consumed   OggDemuxState::result and ::bytes_consumed         *)
(*   pkt                the packet delivered with OGG_OK (Catalogue index) *)
(*   granule, bos, eos, last_on_page   the OggPacket fields                *)
(*   cont_flag          currentPageHasContinuedFlag()                      *)
(*   prev_ended         previousPageEndedWithContinuedPacket()             *)
(*   create_ok          whether the codec constructor succeeds             *)
(***************************************************************************)

\* the member initialisers of the class and the constructor's initialiser list
\* (opus_decoder_ / opus_ms_decoder_: TRUE for a handle; codec_channels_ is what
\* the handle holds of its construction, the channels argument, 0 with no handle)
NewDecoder(enable_crc, sample_rate, channels) ==
    [ ogg_demuxer_ |-> FALSE,
      opus_head_ |-> <<>>,
      opus_decoder_ |-> FALSE,
      opus_ms_decoder_ |-> FALSE,
      codec_channels_ |-> 0,
      samples_decoded_total_ |-> 0,
      last_granule_position_ |-> 0,
      opus_tags_accumulated_size_ |-> 0,
      last_required_buffer_bytes_ |-> 0,
      first_audio_page_samples_ |-> 0 - 1,
      state_ |-> STATE_EXPECT_OPUS_HEAD,
      sample_rate_ |-> sample_rate,
      enable_crc_ |-> enable_crc,
      channels_ |-> channels,
      output_channels_ |-> 0,
      pre_skip_applied_ |-> FALSE,
      has_seen_opus_head_ |-> FALSE,
      has_seen_opus_tags_ |-> FALSE,
      packets_on_current_page_ |-> 0,
      eos_seen_ |-> FALSE,
      expect_continued_packet_ |-> FALSE,
      previous_packet_was_last_on_page_ |-> TRUE ]

\* what a handler hands back: the decoder after it, its result code and the
\* value it leaves in samples_decoded
Ret(d, result, samples) == [d |-> d, result |-> result, samples |-> samples]

update_page_tracking(d, is_last_on_page, prev_ended) ==
    LET d1 == [d EXCEPT !.packets_on_current_page_ = (@ + 1) % 256] IN
    IF is_last_on_page
    THEN [d1 EXCEPT !.packets_on_current_page_ = 0,
                    !.expect_continued_packet_ = prev_ended,
                    !.previous_packet_was_last_on_page_ = TRUE]
    ELSE [d1 EXCEPT !.previous_packet_was_last_on_page_ = FALSE]

\* validate_granule_position without the comparison against the last granule
\* position (sensitivity of C6)
validate_granule_position_no_monotonic_check(d, granule_pos, decoded_samples, is_eos, is_last_on_page) ==
    IF granule_pos > 0 THEN
        LET d1 == IF d.first_audio_page_samples_ = 0 - 1 /\ d.last_granule_position_ = 0
                  THEN [d EXCEPT !.first_audio_page_samples_ = 0]
                  ELSE d
            d2 == IF d1.first_audio_page_samples_ >= 0
                  THEN [d1 EXCEPT !.first_audio_page_samples_ = @ + decoded_samples]
                  ELSE d1
            first_page_bad ==
                /\ d1.first_audio_page_samples_ >= 0
                /\ is_last_on_page
                /\ ~is_eos
                /\ granule_pos < d2.first_audio_page_samples_
            d3 == IF d1.first_audio_page_samples_ >= 0 /\ is_last_on_page
                  THEN [d2 EXCEPT !.first_audio_page_samples_ = 0 - 1]
                  ELSE d2
        IN
        IF first_page_bad THEN [d |-> d2, result |-> OGG_OPUS_INPUT_INVALID]
        ELSE [d |-> [d3 EXCEPT !.last_granule_position_ = granule_pos],
              result |-> OGG_OPUS_OK]
    ELSE [d |-> d, result |-> OGG_OPUS_OK]

\* validate_granule_position with the first-page check applied to an
\* end-of-stream page too (sensitivity of C7)
validate_granule_position_no_eos_exemption(d, granule_pos, decoded_samples, is_eos, is_last_on_page) ==
    IF granule_pos > 0 THEN
        LET d1 == IF d.first_audio_page_samples_ = 0 - 1 /\ d.last_granule_position_ = 0
                  THEN [d EXCEPT !.first_audio_page_samples_ = 0]
                  ELSE d
            d2 == IF d1.first_audio_page_samples_ >= 0
                  THEN [d1 EXCEPT !.first_audio_page_samples_ = @ + decoded_samples]
                  ELSE d1
            first_page_bad ==
                /\ d1.first_audio_page_samples_ >= 0
                /\ is_last_on_page
                /\ granule_pos < d2.first_audio_page_samples_
            d3 == IF d1.first_audio_page_samples_ >= 0 /\ is_last_on_page
                  THEN [d2 EXCEPT !.first_audio_page_samples_ = 0 - 1]
                  ELSE d2
        IN
        IF first_page_bad THEN [d |-> d2, result |-> OGG_OPUS_INPUT_INVALID]
        ELSE IF d3.last_granule_position_ > 0 /\ granule_pos < d3.last_granule_position_
        THEN [d |-> d3, result |-> OGG_OPUS_INPUT_INVALID]
        ELSE [d |-> [d3 EXCEPT !.last_granule_position_ = granule_pos],
              result |-> OGG_OPUS_OK]
    ELSE [d |-> d, result |-> OGG_OPUS_OK]

validate_granule_position(d, granule_pos, decoded_samples, is_eos, is_last_on_page) ==
    IF granule_pos > 0 THEN
        LET d1 == IF d.first_audio_page_samples_ = 0 - 1 /\ d.last_granule_position_ = 0
                  THEN [d EXCEPT !.first_audio_page_samples_ = 0]
                  ELSE d
            d2 == IF d1.first_audio_page_samples_ >= 0
                  THEN [d1 EXCEPT !.first_audio_page_samples_ = @ + decoded_samples]
                  ELSE d1
            first_page_bad ==
                /\ d1.first_audio_page_samples_ >= 0
                /\ is_last_on_page
                /\ ~is_eos
                /\ granule_pos < d2.first_audio_page_samples_
            d3 == IF d1.first_audio_page_samples_ >= 0 /\ is_last_on_page
                  THEN [d2 EXCEPT !.first_audio_page_samples_ = 0 - 1]
                  ELSE d2
        IN
        IF first_page_bad THEN [d |-> d2, result |-> OGG_OPUS_INPUT_INVALID]
        ELSE IF d3.last_granule_position_ > 0 /\ granule_pos < d3.last_granule_position_
        THEN [d |-> d3, result |-> OGG_OPUS_INPUT_INVALID]
        ELSE [d |-> [d3 EXCEPT !.last_granule_position_ = granule_pos],
              result |-> OGG_OPUS_OK]
    ELSE [d |-> d, result |-> OGG_OPUS_OK]

\* create_opus_decoder reporting success whether or not the codec was
\* constructed (sensitivity of C11)
create_opus_decoder_ignores_failure(d, output_channels, create_ok) ==
    LET d1 == [d EXCEPT !.codec_channels_ = IF create_ok THEN output_channels ELSE 0] IN
    IF d.opus_head_[1].channel_mapping = 0
    THEN [d |-> [d1 EXCEPT !.opus_decoder_ = create_ok], result |-> OGG_OPUS_OK]
    ELSE [d |-> [d1 EXCEPT !.opus_ms_decoder_ = create_ok], result |-> OGG_OPUS_OK]

\* create_opus_decoder constructing the mono/stereo codec whatever the mapping
\* family (sensitivity of C35)
create_opus_decoder_single_stream_only(d, output_channels, create_ok) ==
    IF ~create_ok
    THEN [d |-> [d EXCEPT !.opus_decoder_ = FALSE], result |-> OGG_OPUS_ALLOCATION_FAILED]
    ELSE [d |-> [d EXCEPT !.opus_decoder_ = TRUE, !.codec_channels_ = output_channels],
          result |-> OGG_OPUS_OK]

create_opus_decoder(d, output_channels, create_ok) ==
    IF d.opus_head_[1].channel_mapping = 0 THEN
        IF ~create_ok
        THEN [d |-> [d EXCEPT !.opus_decoder_ = FALSE], result |-> OGG_OPUS_ALLOCATION_FAILED]
        ELSE [d |-> [d EXCEPT !.opus_decoder_ = TRUE, !.codec_channels_ = output_channels],
              result |-> OGG_OPUS_OK]
    ELSE
        IF ~create_ok
        THEN [d |-> [d EXCEPT !.opus_ms_decoder_ = FALSE], result |-> OGG_OPUS_ALLOCATION_FAILED]
        ELSE [d |-> [d EXCEPT !.opus_ms_decoder_ = TRUE, !.codec_channels_ = output_channels],
              result |-> OGG_OPUS_OK]

\* handle_opus_head_packet without the test of the granule position
handle_opus_head_packet_any_granule(d, packet, granule_pos, is_bos, is_last_on_page, c) ==
    IF ~is_bos \/ ~is_opus_head(packet) THEN Ret(d, OGG_OPUS_INPUT_INVALID, 0)
    ELSE IF d.has_seen_opus_head_ THEN Ret(d, OGG_OPUS_INPUT_INVALID, 0)
    ELSE
        LET d1 == [d EXCEPT !.has_seen_opus_head_ = TRUE] IN
        IF is_last_on_page /\ d1.packets_on_current_page_ # 0
        THEN Ret(d1, OGG_OPUS_INPUT_INVALID, 0)
        ELSE
            LET d2 == update_page_tracking(d1, is_last_on_page, c.prev_ended)
                d3 == IF d2.opus_head_ = <<>> THEN [d2 EXCEPT !.opus_head_ = <<ZeroHead>>]
                      ELSE d2
                parsed == parse_opus_head(packet, d3.opus_head_[1])
                d4 == [d3 EXCEPT !.opus_head_ = <<parsed.head>>]
            IN
            IF parsed.result # OPUS_HEADER_OK THEN Ret(d4, OGG_OPUS_INPUT_INVALID, 0)
            ELSE
                LET d5 == [d4 EXCEPT !.output_channels_ =
                              IF d4.channels_ # 0 THEN d4.channels_
                              ELSE parsed.head.channel_count]
                    created == create_opus_decoder(d5, d5.output_channels_, c.create_ok)
                IN
                IF created.result # OGG_OPUS_OK THEN Ret(created.d, created.result, 0)
                ELSE Ret([created.d EXCEPT !.state_ = STATE_EXPECT_OPUS_TAGS], OGG_OPUS_OK, 0)

handle_opus_head_packet(d, packet, granule_pos, is_bos, is_last_on_page, c) ==
    IF ~is_bos \/ ~is_opus_head(packet) THEN Ret(d, OGG_OPUS_INPUT_INVALID, 0)
    ELSE IF d.has_seen_opus_head_ THEN Ret(d, OGG_OPUS_INPUT_INVALID, 0)
    ELSE
        LET d1 == [d EXCEPT !.has_seen_opus_head_ = TRUE] IN
        IF is_last_on_page /\ d1.packets_on_current_page_ # 0
        THEN Ret(d1, OGG_OPUS_INPUT_INVALID, 0)
        ELSE
            LET d2 == update_page_tracking(d1, is_last_on_page, c.prev_ended)
                d3 == IF d2.opus_head_ = <<>> THEN [d2 EXCEPT !.opus_head_ = <<ZeroHead>>]
                      ELSE d2
                parsed == parse_opus_head(packet, d3.opus_head_[1])
                d4 == [d3 EXCEPT !.opus_head_ = <<parsed.head>>]
            IN
            IF parsed.result # OPUS_HEADER_OK THEN Ret(d4, OGG_OPUS_INPUT_INVALID, 0)
            ELSE IF granule_pos # 0 THEN Ret(d4, OGG_OPUS_INPUT_INVALID, 0)
            ELSE
                LET d5 == [d4 EXCEPT !.output_channels_ =
                              IF d4.channels_ # 0 THEN d4.channels_
                              ELSE parsed.head.channel_count]
                    created == create_opus_decoder(d5, d5.output_channels_, c.create_ok)
                IN
                IF created.result # OGG_OPUS_OK THEN Ret(created.d, created.result, 0)
                ELSE Ret([created.d EXCEPT !.state_ = STATE_EXPECT_OPUS_TAGS], OGG_OPUS_OK, 0)

\* handle_opus_tags_packet without the test of the packet's signature
\* (sensitivity of C5)
handle_opus_tags_packet_any_signature(d, packet, granule_pos, is_last_on_page, c) ==
    IF d.has_seen_opus_tags_ THEN Ret(d, OGG_OPUS_INPUT_INVALID, 0)
    ELSE
        LET d1 == [d EXCEPT !.has_seen_opus_tags_ = TRUE,
                            !.opus_tags_accumulated_size_ = @ + packet.length]
        IN
        IF d1.opus_tags_accumulated_size_ > max_opus_tags_size
        THEN Ret(d1, OGG_OPUS_INPUT_INVALID, 0)
        ELSE IF packet.length < min_opus_tags_size THEN Ret(d1, OGG_OPUS_INPUT_INVALID, 0)
        ELSE IF is_last_on_page /\ d1.packets_on_current_page_ # 0
        THEN Ret(d1, OGG_OPUS_INPUT_INVALID, 0)
        ELSE IF is_last_on_page /\ granule_pos # 0 THEN Ret(d1, OGG_OPUS_INPUT_INVALID, 0)
        ELSE
            LET d2 == update_page_tracking(d1, is_last_on_page, c.prev_ended) IN
            Ret([d2 EXCEPT !.state_ = STATE_DECODING], OGG_OPUS_OK, 0)

\* handle_opus_tags_packet taking a packet with the "OpusHead" signature as the
\* start of a new stream and parsing it as an identification header
\* (sensitivity of C12)
handle_opus_tags_packet_restarts_on_head(d, packet, granule_pos, is_last_on_page, c) ==
    IF is_opus_head(packet)
    THEN handle_opus_head_packet([d EXCEPT !.has_seen_opus_head_ = FALSE], packet,
                                 granule_pos, TRUE, is_last_on_page, c)
    ELSE IF ~is_opus_tags(packet) THEN Ret(d, OGG_OPUS_INPUT_INVALID, 0)
    ELSE IF d.has_seen_opus_tags_ THEN Ret(d, OGG_OPUS_INPUT_INVALID, 0)
    ELSE
        LET d1 == [d EXCEPT !.has_seen_opus_tags_ = TRUE,
                            !.opus_tags_accumulated_size_ = @ + packet.length]
        IN
        IF d1.opus_tags_accumulated_size_ > max_opus_tags_size
        THEN Ret(d1, OGG_OPUS_INPUT_INVALID, 0)
        ELSE IF packet.length < min_opus_tags_size THEN Ret(d1, OGG_OPUS_INPUT_INVALID, 0)
        ELSE IF is_last_on_page /\ d1.packets_on_current_page_ # 0
        THEN Ret(d1, OGG_OPUS_INPUT_INVALID, 0)
        ELSE IF is_last_on_page /\ granule_pos # 0 THEN Ret(d1, OGG_OPUS_INPUT_INVALID, 0)
        ELSE
            LET d2 == update_page_tracking(d1, is_last_on_page, c.prev_ended) IN
            Ret([d2 EXCEPT !.state_ = STATE_DECODING], OGG_OPUS_OK, 0)

\* handle_opus_tags_packet without the test of the minimum size
handle_opus_tags_packet_no_minimum_size(d, packet, granule_pos, is_last_on_page, c) ==
    IF ~is_opus_tags(packet) THEN Ret(d, OGG_OPUS_INPUT_INVALID, 0)
    ELSE IF d.has_seen_opus_tags_ THEN Ret(d, OGG_OPUS_INPUT_INVALID, 0)
    ELSE
        LET d1 == [d EXCEPT !.has_seen_opus_tags_ = TRUE,
                            !.opus_tags_accumulated_size_ = @ + packet.length]
        IN
        IF d1.opus_tags_accumulated_size_ > max_opus_tags_size
        THEN Ret(d1, OGG_OPUS_INPUT_INVALID, 0)
        ELSE IF is_last_on_page /\ d1.packets_on_current_page_ # 0
        THEN Ret(d1, OGG_OPUS_INPUT_INVALID, 0)
        ELSE IF is_last_on_page /\ granule_pos # 0 THEN Ret(d1, OGG_OPUS_INPUT_INVALID, 0)
        ELSE
            LET d2 == update_page_tracking(d1, is_last_on_page, c.prev_ended) IN
            Ret([d2 EXCEPT !.state_ = STATE_DECODING], OGG_OPUS_OK, 0)

handle_opus_tags_packet(d, packet, granule_pos, is_last_on_page, c) ==
    IF ~is_opus_tags(packet) THEN Ret(d, OGG_OPUS_INPUT_INVALID, 0)
    ELSE IF d.has_seen_opus_tags_ THEN Ret(d, OGG_OPUS_INPUT_INVALID, 0)
    ELSE
        LET d1 == [d EXCEPT !.has_seen_opus_tags_ = TRUE,
                            !.opus_tags_accumulated_size_ = @ + packet.length]
        IN
        IF d1.opus_tags_accumulated_size_ > max_opus_tags_size
        THEN Ret(d1, OGG_OPUS_INPUT_INVALID, 0)
        ELSE IF packet.length < min_opus_tags_size THEN Ret(d1, OGG_OPUS_INPUT_INVALID, 0)
        ELSE IF is_last_on_page /\ d1.packets_on_current_page_ # 0
        THEN Ret(d1, OGG_OPUS_INPUT_INVALID, 0)
        ELSE IF is_last_on_page /\ granule_pos # 0 THEN Ret(d1, OGG_OPUS_INPUT_INVALID, 0)
        ELSE
            LET d2 == update_page_tracking(d1, is_last_on_page, c.prev_ended) IN
            Ret([d2 EXCEPT !.state_ = STATE_DECODING], OGG_OPUS_OK, 0)

\* opus_packet_get_nb_samples(data, len, Fs): the packet's duration in samples
\* at rate Fs, or a negative error code
opus_packet_get_nb_samples(packet, Fs) ==
    IF packet.nb48 > 0 THEN (packet.nb48 * Fs) \div OPUS_SAMPLE_RATE_48K ELSE packet.nb48

\* opus_decode / opus_multistream_decode(st, data, len, pcm, frame_size, 0):
\* the samples written per channel, or a negative error code
opus_decode(packet, max_frame_size, Fs) ==
    LET n == opus_packet_get_nb_samples(packet, Fs) IN
    IF packet.codec_ok /\ n > 0 /\ n <= max_frame_size THEN n ELSE OPUS_INVALID_PACKET

Min(a, b) == IF a < b THEN a ELSE b

ValidSampleRate(rate) ==
    rate \in { OPUS_SAMPLE_RATE_8K, OPUS_SAMPLE_RATE_12K, OPUS_SAMPLE_RATE_16K,
               OPUS_SAMPLE_RATE_24K, OPUS_SAMPLE_RATE_48K }

\* apply_pre_skip reporting the whole frame when the pre-skip ends inside it
\* (sensitivity of C8)
apply_pre_skip_untrimmed(d, decoded_samples, output_channels) ==
    LET plain == Ret([d EXCEPT !.samples_decoded_total_ = @ + decoded_samples],
                     OGG_OPUS_OK, decoded_samples)
    IN
    IF ~d.pre_skip_applied_ /\ d.opus_head_[1].pre_skip > 0 THEN
        IF ~ValidSampleRate(d.sample_rate_) THEN Ret(d, OGG_OPUS_INPUT_INVALID, 0)
        ELSE
            LET pre_skip_at_sample_rate ==
                    (d.opus_head_[1].pre_skip * d.sample_rate_) \div OPUS_SAMPLE_RATE_48K
            IN
            IF d.samples_decoded_total_ + decoded_samples <= pre_skip_at_sample_rate
            THEN Ret([d EXCEPT !.samples_decoded_total_ = @ + decoded_samples],
                     OGG_OPUS_OK, 0)
            ELSE Ret([d EXCEPT !.samples_decoded_total_ = @ + decoded_samples,
                               !.pre_skip_applied_ = TRUE],
                     OGG_OPUS_OK, decoded_samples)
    ELSE plain

\* apply_pre_skip reporting skip_count where keep_count is meant
\* (sensitivity of C10)
apply_pre_skip_reports_skip_count(d, decoded_samples, output_channels) ==
    LET plain == Ret([d EXCEPT !.samples_decoded_total_ = @ + decoded_samples],
                     OGG_OPUS_OK, decoded_samples)
    IN
    IF ~d.pre_skip_applied_ /\ d.opus_head_[1].pre_skip > 0 THEN
        IF ~ValidSampleRate(d.sample_rate_) THEN Ret(d, OGG_OPUS_INPUT_INVALID, 0)
        ELSE
            LET pre_skip_at_sample_rate ==
                    (d.opus_head_[1].pre_skip * d.sample_rate_) \div OPUS_SAMPLE_RATE_48K
            IN
            IF d.samples_decoded_total_ + decoded_samples <= pre_skip_at_sample_rate
            THEN Ret([d EXCEPT !.samples_decoded_total_ = @ + decoded_samples],
                     OGG_OPUS_OK, 0)
            ELSE IF d.samples_decoded_total_ < pre_skip_at_sample_rate THEN
                LET skip_count == pre_skip_at_sample_rate - d.samples_decoded_total_ IN
                IF skip_count > decoded_samples THEN Ret(d, OGG_OPUS_INPUT_INVALID, 0)
                ELSE Ret([d EXCEPT !.samples_decoded_total_ = @ + decoded_samples,
                                   !.pre_skip_applied_ = TRUE],
                         OGG_OPUS_OK, skip_count)
            ELSE
                Ret([d EXCEPT !.samples_decoded_total_ = @ + decoded_samples,
                              !.pre_skip_applied_ = TRUE],
                    OGG_OPUS_OK, decoded_samples)
    ELSE plain

\* apply_pre_skip without the test of the configured rate (sensitivity of C36)
apply_pre_skip_any_rate(d, decoded_samples, output_channels) ==
    LET plain == Ret([d EXCEPT !.samples_decoded_total_ = @ + decoded_samples],
                     OGG_OPUS_OK, decoded_samples)
    IN
    IF ~d.pre_skip_applied_ /\ d.opus_head_[1].pre_skip > 0 THEN
        LET pre_skip_at_sample_rate ==
                (d.opus_head_[1].pre_skip * d.sample_rate_) \div OPUS_SAMPLE_RATE_48K
        IN
        IF d.samples_decoded_total_ + decoded_samples <= pre_skip_at_sample_rate
        THEN Ret([d EXCEPT !.samples_decoded_total_ = @ + decoded_samples],
                 OGG_OPUS_OK, 0)
        ELSE IF d.samples_decoded_total_ < pre_skip_at_sample_rate THEN
            LET skip_count == pre_skip_at_sample_rate - d.samples_decoded_total_ IN
            IF skip_count > decoded_samples THEN Ret(d, OGG_OPUS_INPUT_INVALID, 0)
            ELSE Ret([d EXCEPT !.samples_decoded_total_ = @ + decoded_samples,
                               !.pre_skip_applied_ = TRUE],
                     OGG_OPUS_OK, decoded_samples - skip_count)
        ELSE
            Ret([d EXCEPT !.samples_decoded_total_ = @ + decoded_samples,
                          !.pre_skip_applied_ = TRUE],
                OGG_OPUS_OK, decoded_samples)
    ELSE plain

apply_pre_skip(d, decoded_samples, output_channels) ==
    LET plain == Ret([d EXCEPT !.samples_decoded_total_ = @ + decoded_samples],
                     OGG_OPUS_OK, decoded_samples)
    IN
    IF ~d.pre_skip_applied_ /\ d.opus_head_[1].pre_skip > 0 THEN
        IF ~ValidSampleRate(d.sample_rate_) THEN Ret(d, OGG_OPUS_INPUT_INVALID, 0)
        ELSE
            LET pre_skip_at_sample_rate ==
                    (d.opus_head_[1].pre_skip * d.sample_rate_) \div OPUS_SAMPLE_RATE_48K
            IN
            IF d.samples_decoded_total_ + decoded_samples <= pre_skip_at_sample_rate
            THEN Ret([d EXCEPT !.samples_decoded_total_ = @ + decoded_samples],
                     OGG_OPUS_OK, 0)
            ELSE IF d.samples_decoded_total_ < pre_skip_at_sample_rate THEN
                LET skip_count == pre_skip_at_sample_rate - d.samples_decoded_total_ IN
                IF skip_count > decoded_samples THEN Ret(d, OGG_OPUS_INPUT_INVALID, 0)
                ELSE Ret([d EXCEPT !.samples_decoded_total_ = @ + decoded_samples,
                                   !.pre_skip_applied_ = TRUE],
                         OGG_OPUS_OK, decoded_samples - skip_count)
            ELSE
                Ret([d EXCEPT !.samples_decoded_total_ = @ + decoded_samples,
                              !.pre_skip_applied_ = TRUE],
                    OGG_OPUS_OK, decoded_samples)
    ELSE plain

\* the memmove of apply_pre_skip with the source taken skip_count elements
\* into the buffer, whatever the number of channels
apply_pre_skip_memmove_one_channel(d, decoded_samples, output_channels) ==
    IF ~d.pre_skip_applied_ /\ d.opus_head_[1].pre_skip > 0 /\ ValidSampleRate(d.sample_rate_)
    THEN
        LET pre_skip_at_sample_rate ==
                (d.opus_head_[1].pre_skip * d.sample_rate_) \div OPUS_SAMPLE_RATE_48K
            skip_count == pre_skip_at_sample_rate - d.samples_decoded_total_
        IN
        IF /\ d.samples_decoded_total_ + decoded_samples > pre_skip_at_sample_rate
           /\ d.samples_decoded_total_ < pre_skip_at_sample_rate
           /\ skip_count <= decoded_samples
        THEN skip_count
        ELSE 0
    ELSE 0

\* The memmove of apply_pre_skip: the index in output (in int16_t elements) of
\* the element that ends up at index 0; 0 when the samples are not moved.
apply_pre_skip_memmove(d, decoded_samples, output_channels) ==
    IF ~d.pre_skip_applied_ /\ d.opus_head_[1].pre_skip > 0 /\ ValidSampleRate(d.sample_rate_)
    THEN
        LET pre_skip_at_sample_rate ==
                (d.opus_head_[1].pre_skip * d.sample_rate_) \div OPUS_SAMPLE_RATE_48K
            skip_count == pre_skip_at_sample_rate - d.samples_decoded_total_
        IN
        IF /\ d.samples_decoded_total_ + decoded_samples > pre_skip_at_sample_rate
           /\ d.samples_decoded_total_ < pre_skip_at_sample_rate
           /\ skip_count <= decoded_samples
        THEN skip_count * output_channels
        ELSE 0
    ELSE 0

\* opus_multistream_decode writes interleaved frames of `channels` elements;
\* the element at index e belongs to channel e % channels and is written as 0
\* when that channel's mapping entry is 255 (no stream feeds it).
opus_multistream_decode_writes_zero(head, e, channels) ==
    /\ (e % channels) + 1 <= MaxTable
    /\ head.channel_mapping_table[(e % channels) + 1] = 255

\* the frame ceiling counted in int16_t elements, not in samples per channel
\* (sensitivity of C40)
max_frame_size_of_all_channels(output_size, output_channels) ==
    Min(output_size \div SizeofInt16, INT_MAX)

\* handle_audio_packet, the frame ceiling handed to the codec: max_samples, the
\* samples per channel the caller's buffer holds, limited to INT_MAX
max_frame_size_of(output_size, output_channels) ==
    Min(output_size \div (output_channels * SizeofInt16), INT_MAX)

\* handle_audio_packet without the two tests of the packet length (sensitivity
\* of C31)
handle_audio_packet_no_length_checks(d, packet, granule_pos, is_eos, is_last_on_page, output_size, c) ==
    LET d1 == IF is_eos THEN [d EXCEPT !.eos_seen_ = TRUE] ELSE d
        nb_samples == opus_packet_get_nb_samples(packet, d1.sample_rate_)
        d2 == IF nb_samples > 0
              THEN [d1 EXCEPT !.last_required_buffer_bytes_ =
                                  nb_samples * d1.output_channels_ * SizeofInt16]
              ELSE d1
    IN
    IF nb_samples > 0 /\ output_size < d2.last_required_buffer_bytes_
    THEN Ret(d2, OGG_OPUS_OUTPUT_BUFFER_TOO_SMALL, 0)
    ELSE IF ~d2.opus_decoder_ /\ ~d2.opus_ms_decoder_
    THEN Ret(d2, OGG_OPUS_NOT_INITIALIZED, 0)
    ELSE
        LET max_frame_size == max_frame_size_of(output_size, d2.output_channels_)
            decoded_samples_int == opus_decode(packet, max_frame_size, d2.sample_rate_)
        IN
        IF decoded_samples_int < 0 THEN Ret(d2, OGG_OPUS_DECODE_ERROR, 0)
        ELSE
            LET d3 == update_page_tracking(d2, is_last_on_page, c.prev_ended)
                granule_result ==
                    validate_granule_position(d3, granule_pos, decoded_samples_int,
                                              is_eos, is_last_on_page)
            IN
            IF granule_result.result # OGG_OPUS_OK
            THEN Ret(granule_result.d, granule_result.result, 0)
            ELSE apply_pre_skip(granule_result.d, decoded_samples_int,
                                granule_result.d.output_channels_)

\* handle_audio_packet handing back the frame's sample count when
\* validate_granule_position refuses the packet (sensitivity of C39)
handle_audio_packet_reports_refused_frame(d, packet, granule_pos, is_eos, is_last_on_page, output_size, c) ==
    LET d1 == IF is_eos THEN [d EXCEPT !.eos_seen_ = TRUE] ELSE d IN
    IF packet.length = 0 THEN Ret(d1, OGG_OPUS_INPUT_INVALID, 0)
    ELSE IF packet.length > max_opus_packet_size THEN Ret(d1, OGG_OPUS_INPUT_INVALID, 0)
    ELSE
        LET nb_samples == opus_packet_get_nb_samples(packet, d1.sample_rate_)
            d2 == IF nb_samples > 0
                  THEN [d1 EXCEPT !.last_required_buffer_bytes_ =
                                      nb_samples * d1.output_channels_ * SizeofInt16]
                  ELSE d1
        IN
        IF nb_samples > 0 /\ output_size < d2.last_required_buffer_bytes_
        THEN Ret(d2, OGG_OPUS_OUTPUT_BUFFER_TOO_SMALL, 0)
        ELSE IF ~d2.opus_decoder_ /\ ~d2.opus_ms_decoder_
        THEN Ret(d2, OGG_OPUS_NOT_INITIALIZED, 0)
        ELSE
            LET max_frame_size == max_frame_size_of(output_size, d2.output_channels_)
                decoded_samples_int == opus_decode(packet, max_frame_size, d2.sample_rate_)
            IN
            IF decoded_samples_int < 0 THEN Ret(d2, OGG_OPUS_DECODE_ERROR, 0)
            ELSE
                LET d3 == update_page_tracking(d2, is_last_on_page, c.prev_ended)
                    granule_result ==
                        validate_granule_position(d3, granule_pos, decoded_samples_int,
                                                  is_eos, is_last_on_page)
                IN
                IF granule_result.result # OGG_OPUS_OK
                THEN Ret(granule_result.d, granule_result.result, decoded_samples_int)
                ELSE apply_pre_skip(granule_result.d, decoded_samples_int,
                                    granule_result.d.output_channels_)

handle_audio_packet(d, packet, granule_pos, is_eos, is_last_on_page, output_size, c) ==
    LET d1 == IF is_eos THEN [d EXCEPT !.eos_seen_ = TRUE] ELSE d IN
    IF packet.length = 0 THEN Ret(d1, OGG_OPUS_INPUT_INVALID, 0)
    ELSE IF packet.length > max_opus_packet_size THEN Ret(d1, OGG_OPUS_INPUT_INVALID, 0)
    ELSE
        LET nb_samples == opus_packet_get_nb_samples(packet, d1.sample_rate_)
            d2 == IF nb_samples > 0
                  THEN [d1 EXCEPT !.last_required_buffer_bytes_ =
                                      nb_samples * d1.output_channels_ * SizeofInt16]
                  ELSE d1
        IN
        IF nb_samples > 0 /\ output_size < d2.last_required_buffer_bytes_
        THEN Ret(d2, OGG_OPUS_OUTPUT_BUFFER_TOO_SMALL, 0)
        ELSE IF ~d2.opus_decoder_ /\ ~d2.opus_ms_decoder_
        THEN Ret(d2, OGG_OPUS_NOT_INITIALIZED, 0)
        ELSE
            LET max_frame_size == max_frame_size_of(output_size, d2.output_channels_)
                decoded_samples_int == opus_decode(packet, max_frame_size, d2.sample_rate_)
            IN
            IF decoded_samples_int < 0 THEN Ret(d2, OGG_OPUS_DECODE_ERROR, 0)
            ELSE
                LET d3 == update_page_tracking(d2, is_last_on_page, c.prev_ended)
                    granule_result ==
                        validate_granule_position(d3, granule_pos, decoded_samples_int,
                                                  is_eos, is_last_on_page)
                IN
                IF granule_result.result # OGG_OPUS_OK
                THEN Ret(granule_result.d, granule_result.result, 0)
                ELSE apply_pre_skip(granule_result.d, decoded_samples_int,
                                    granule_result.d.output_channels_)

process_packet(d, c) ==
    LET packet == Catalogue[c.pkt] IN
    IF d.packets_on_current_page_ = 0 /\ c.cont_flag # d.expect_continued_packet_
    THEN Ret(d, OGG_OPUS_INPUT_INVALID, 0)
    ELSE IF d.state_ = STATE_EXPECT_OPUS_HEAD
    THEN handle_opus_head_packet(d, packet, c.granule, c.bos, c.last_on_page, c)
    ELSE IF d.state_ = STATE_EXPECT_OPUS_TAGS
    THEN handle_opus_tags_packet(d, packet, c.granule, c.last_on_page, c)
    ELSE handle_audio_packet(d, packet, c.granule, c.eos, c.last_on_page, c.output_size, c)

\* what decode() hands back: the decoder after the call, the result code, whether
\* the out-parameters were assigned (an early return leaves them as the caller
\* had them) and their values, and whether getNextPacket was called
Out(d, result, written, bytes_consumed, samples_decoded, consulted) ==
    [d |-> d, result |-> result, written |-> written, bytes_consumed |-> bytes_consumed,
     samples_decoded |-> samples_decoded, consulted |-> consulted]

\* decode_preconditions without the end-of-stream check (sensitivity of C2)
decode_preconditions_no_eos_check(d, c) ==
    IF ~c.input THEN OGG_OPUS_INPUT_INVALID
    ELSE IF d.state_ = STATE_DECODING /\ ~c.output THEN OGG_OPUS_INPUT_INVALID
    ELSE IF d.state_ = STATE_DECODING /\ c.output_size = 0
    THEN OGG_OPUS_OUTPUT_BUFFER_TOO_SMALL
    ELSE OGG_OPUS_OK

\* decode_preconditions validating the output buffer in every dispatch state
\* (sensitivity of C15)
decode_preconditions_output_always_checked(d, c) ==
    IF ~c.input THEN OGG_OPUS_INPUT_INVALID
    ELSE IF ~c.output THEN OGG_OPUS_INPUT_INVALID
    ELSE IF c.output_size = 0 THEN OGG_OPUS_OUTPUT_BUFFER_TOO_SMALL
    ELSE IF d.eos_seen_ THEN OGG_OPUS_INPUT_INVALID
    ELSE OGG_OPUS_OK

\* decode_preconditions without the test of the input pointer (sensitivity of
\* C16)
decode_preconditions_no_input_check(d, c) ==
    IF d.state_ = STATE_DECODING /\ ~c.output THEN OGG_OPUS_INPUT_INVALID
    ELSE IF d.state_ = STATE_DECODING /\ c.output_size = 0
    THEN OGG_OPUS_OUTPUT_BUFFER_TOO_SMALL
    ELSE IF d.eos_seen_ THEN OGG_OPUS_INPUT_INVALID
    ELSE OGG_OPUS_OK

\* decode(), the checks made before the packet source is consulted: the result
\* code of the early return, or OGG_OPUS_OK when the call goes on
decode_preconditions(d, c) ==
    IF ~c.input THEN OGG_OPUS_INPUT_INVALID
    ELSE IF d.state_ = STATE_DECODING /\ ~c.output THEN OGG_OPUS_INPUT_INVALID
    ELSE IF d.state_ = STATE_DECODING /\ c.output_size = 0
    THEN OGG_OPUS_OUTPUT_BUFFER_TOO_SMALL
    ELSE IF d.eos_seen_ THEN OGG_OPUS_INPUT_INVALID
    ELSE OGG_OPUS_OK

\* decode_packet_skipped without the test of the dispatch state (sensitivity of C1)
decode_packet_skipped_in_any_state(d) ==
    [d EXCEPT !.has_seen_opus_tags_ = TRUE, !.state_ = STATE_DECODING]

\* decode(), the branch for OGG_PACKET_SKIPPED: the decoder after it
decode_packet_skipped(d) ==
    IF d.state_ = STATE_EXPECT_OPUS_TAGS
    THEN [d EXCEPT !.has_seen_opus_tags_ = TRUE, !.state_ = STATE_DECODING]
    ELSE d

\* decode reporting the whole input as consumed (sensitivity of C9)
decode_consumes_all_input(d, c) ==
    IF decode_preconditions(d, c) # OGG_OPUS_OK
    THEN Out(d, decode_preconditions(d, c), FALSE, 0, 0, FALSE)
    ELSE
        LET d1 == [d EXCEPT !.ogg_demuxer_ = TRUE] IN
        IF c.status = OGG_NEED_MORE_DATA
        THEN Out(d1, OGG_OPUS_OK, TRUE, c.input_len, 0, TRUE)
        ELSE IF c.status = OGG_PACKET_SKIPPED
        THEN Out(decode_packet_skipped(d1), OGG_OPUS_OK, TRUE, c.input_len, 0, TRUE)
        ELSE IF c.status = OGG_OK THEN
            LET r == process_packet(d1, c) IN
            Out(r.d, r.result, TRUE, c.input_len, r.samples, TRUE)
        ELSE Out(d1, OGG_OPUS_INPUT_INVALID, TRUE, c.input_len, 0, TRUE)

\* decode reporting no consumed bytes when the packet source needs more data
\* (sensitivity of C22)
decode_need_more_data_consumes_nothing(d, c) ==
    IF decode_preconditions(d, c) # OGG_OPUS_OK
    THEN Out(d, decode_preconditions(d, c), FALSE, 0, 0, FALSE)
    ELSE
        LET d1 == [d EXCEPT !.ogg_demuxer_ = TRUE] IN
        IF c.status = OGG_NEED_MORE_DATA
        THEN Out(d1, OGG_OPUS_OK, TRUE, 0, 0, TRUE)
        ELSE IF c.status = OGG_PACKET_SKIPPED
        THEN Out(decode_packet_skipped(d1), OGG_OPUS_OK, TRUE, c.consumed, 0, TRUE)
        ELSE IF c.status = OGG_OK THEN
            LET r == process_packet(d1, c) IN
            Out(r.d, r.result, TRUE, c.consumed, r.samples, TRUE)
        ELSE Out(d1, OGG_OPUS_INPUT_INVALID, TRUE, c.consumed, 0, TRUE)

\* decode leaving the dispatch state alone when a packet was skipped
\* (sensitivity of C23)
decode_ignores_skipped_packet(d, c) ==
    IF decode_preconditions(d, c) # OGG_OPUS_OK
    THEN Out(d, decode_preconditions(d, c), FALSE, 0, 0, FALSE)
    ELSE
        LET d1 == [d EXCEPT !.ogg_demuxer_ = TRUE] IN
        IF c.status = OGG_NEED_MORE_DATA
        THEN Out(d1, OGG_OPUS_OK, TRUE, c.consumed, 0, TRUE)
        ELSE IF c.status = OGG_PACKET_SKIPPED
        THEN Out(d1, OGG_OPUS_OK, TRUE, c.consumed, 0, TRUE)
        ELSE IF c.status = OGG_OK THEN
            LET r == process_packet(d1, c) IN
            Out(r.d, r.result, TRUE, c.consumed, r.samples, TRUE)
        ELSE Out(d1, OGG_OPUS_INPUT_INVALID, TRUE, c.consumed, 0, TRUE)

\* decode handing on an allocation failure of the packet source as
\* ALLOCATION_FAILED (sensitivity of C24)
decode_reports_demuxer_allocation_failure(d, c) ==
    IF decode_preconditions(d, c) # OGG_OPUS_OK
    THEN Out(d, decode_preconditions(d, c), FALSE, 0, 0, FALSE)
    ELSE
        LET d1 == [d EXCEPT !.ogg_demuxer_ = TRUE] IN
        IF c.status = OGG_NEED_MORE_DATA
        THEN Out(d1, OGG_OPUS_OK, TRUE, c.consumed, 0, TRUE)
        ELSE IF c.status = OGG_PACKET_SKIPPED
        THEN Out(decode_packet_skipped(d1), OGG_OPUS_OK, TRUE, c.consumed, 0, TRUE)
        ELSE IF c.status = OGG_OK THEN
            LET r == process_packet(d1, c) IN
            Out(r.d, r.result, TRUE, c.consumed, r.samples, TRUE)
        ELSE Out(d1, IF c.status = OGG_ALLOCATION_FAILED THEN OGG_OPUS_ALLOCATION_FAILED
                      ELSE OGG_OPUS_INPUT_INVALID, TRUE, c.consumed, 0, TRUE)

decode(d, c) ==
    IF decode_preconditions(d, c) # OGG_OPUS_OK
    THEN Out(d, decode_preconditions(d, c), FALSE, 0, 0, FALSE)
    ELSE
        LET d1 == [d EXCEPT !.ogg_demuxer_ = TRUE] IN
        IF c.status = OGG_NEED_MORE_DATA
        THEN Out(d1, OGG_OPUS_OK, TRUE, c.consumed, 0, TRUE)
        ELSE IF c.status = OGG_PACKET_SKIPPED
        THEN Out(decode_packet_skipped(d1), OGG_OPUS_OK, TRUE, c.consumed, 0, TRUE)
        ELSE IF c.status = OGG_OK THEN
            LET r == process_packet(d1, c) IN
            Out(r.d, r.result, TRUE, c.consumed, r.samples, TRUE)
        ELSE Out(d1, OGG_OPUS_INPUT_INVALID, TRUE, c.consumed, 0, TRUE)

\* reset leaving the identification-header latch as it is (sensitivity of C13)
reset_keeps_header_latch(d) ==
    [d EXCEPT !.opus_decoder_ = FALSE,
              !.opus_ms_decoder_ = FALSE,
              !.codec_channels_ = 0,
              !.opus_head_ = <<>>,
              !.state_ = STATE_EXPECT_OPUS_HEAD,
              !.output_channels_ = 0,
              !.samples_decoded_total_ = 0,
              !.pre_skip_applied_ = FALSE,
              !.last_granule_position_ = 0,
              !.last_required_buffer_bytes_ = 0,
              !.has_seen_opus_tags_ = FALSE,
              !.opus_tags_accumulated_size_ = 0,
              !.packets_on_current_page_ = 0,
              !.first_audio_page_samples_ = 0 - 1,
              !.eos_seen_ = FALSE,
              !.expect_continued_packet_ = FALSE,
              !.previous_packet_was_last_on_page_ = TRUE]

reset(d) ==
    [d EXCEPT !.opus_decoder_ = FALSE,
              !.opus_ms_decoder_ = FALSE,
              !.codec_channels_ = 0,
              !.opus_head_ = <<>>,
              !.state_ = STATE_EXPECT_OPUS_HEAD,
              !.output_channels_ = 0,
              !.samples_decoded_total_ = 0,
              !.pre_skip_applied_ = FALSE,
              !.last_granule_position_ = 0,
              !.last_required_buffer_bytes_ = 0,
              !.has_seen_opus_head_ = FALSE,
              !.has_seen_opus_tags_ = FALSE,
              !.opus_tags_accumulated_size_ = 0,
              !.packets_on_current_page_ = 0,
              !.first_audio_page_samples_ = 0 - 1,
              !.eos_seen_ = FALSE,
              !.expect_continued_packet_ = FALSE,
              !.previous_packet_was_last_on_page_ = TRUE]

\* the accessors
get_sample_rate(d) == IF d.state_ = STATE_DECODING THEN d.sample_rate_ ELSE 0

get_channels(d) == d.output_channels_

get_pre_skip(d) ==
    IF d.state_ = STATE_DECODING /\ d.opus_head_ # <<>> THEN d.opus_head_[1].pre_skip ELSE 0

get_output_gain(d) ==
    IF d.state_ = STATE_DECODING /\ d.opus_head_ # <<>> THEN d.opus_head_[1].output_gain
    ELSE 0

get_required_output_buffer_size(d) == d.last_required_buffer_bytes_

is_initialized(d) == d.state_ = STATE_DECODING

(***************************************************************************)
(* The callers and the collaborators.                                      *)
(***************************************************************************)
\* constructor arguments (enable_crc, sample_rate, channels) of the instances
Configs ==
    { <<FALSE, OPUS_DEFAULT_SAMPLE_RATE, 0>>,
      <<TRUE, OPUS_SAMPLE_RATE_8K, 1>> }

\* output_size values (bytes): none, too small for a 20 ms frame, room for a
\* 20 ms frame of three channels at 48 kHz
OutputSizes == {0, 1000, 5760}

\* granule positions a packet carries: the all-ones sentinel (-1 as int64_t),
\* unset, and three set values
Granules == {0 - 1, 0, 480, 960}

NoPacket == 0

\* An answer of the collaborators that the call never asks for is left at a
\* fixed value: NoAnswer is the demuxer not being consulted at all.
Answer(st, n, p, g, b, e, l, cf, pe, ok) ==
    [status |-> st, consumed |-> n, pkt |-> p, granule |-> g, bos |-> b, eos |-> e,
     last_on_page |-> l, cont_flag |-> cf, prev_ended |-> pe, create_ok |-> ok]

NoAnswer ==
    Answer(OGG_NEED_MORE_DATA, 0, NoPacket, 0, FALSE, FALSE, FALSE, FALSE, FALSE, FALSE)

\* the page flags of a delivered packet that passes the checks made before the
\* page bookkeeping: last on its page or not, and, when it is, whether the page
\* ended in the middle of a packet
PageEnds == { <<FALSE, FALSE>>, <<TRUE, FALSE>>, <<TRUE, TRUE>> }

\* whether handle_audio_packet gets as far as the codec's decode call with a
\* packet the codec accepts
Decodable(d, packet, output_size) ==
    /\ packet.length > 0
    /\ packet.length <= max_opus_packet_size
    /\ packet.nb48 > 0
    /\ packet.codec_ok
    /\ output_size >= opus_packet_get_nb_samples(packet, d.sample_rate_)
                          * d.output_channels_ * SizeofInt16

\* The packets the demuxer can deliver to decoder d with their flags.
Deliveries(d, a) ==
    LET cfs == IF d.packets_on_current_page_ = 0 THEN BOOLEAN ELSE {FALSE}
        ps == 1..Len(Catalogue)
    IN
    IF d.state_ = STATE_EXPECT_OPUS_HEAD THEN
        { Answer(OGG_OK, a.input_len, p, 0, FALSE, e, FALSE, cf, FALSE, FALSE) :
            p \in ps, e \in BOOLEAN, cf \in cfs }
        \cup
        { Answer(OGG_OK, a.input_len, p, g, TRUE, FALSE, pg[1], cf, pg[2], ok) :
            p \in {q \in ps : is_opus_head(Catalogue[q])}, g \in {0, 960},
            pg \in PageEnds, cf \in cfs, ok \in BOOLEAN }
    ELSE IF d.state_ = STATE_EXPECT_OPUS_TAGS THEN
        { Answer(OGG_OK, a.input_len, p, 0, FALSE, FALSE, FALSE, cf, FALSE, FALSE) :
            p \in {q \in ps : ~is_opus_tags(Catalogue[q])}, cf \in cfs }
        \cup
        { Answer(OGG_OK, a.input_len, p, g, FALSE, e, pg[1], cf, pg[2], FALSE) :
            p \in {q \in ps : is_opus_tags(Catalogue[q])}, g \in {0, 960},
            e \in BOOLEAN, pg \in PageEnds, cf \in cfs }
    ELSE
        { Answer(OGG_OK, a.input_len, p, 0, FALSE, e, FALSE, cf, FALSE, FALSE) :
            p \in {q \in ps : ~Decodable(d, Catalogue[q], a.output_size)},
            e \in BOOLEAN, cf \in cfs }
        \cup
        { Answer(OGG_OK, a.input_len, p, g, FALSE, e, pg[1], cf, pg[2], FALSE) :
            p \in {q \in ps : Decodable(d, Catalogue[q], a.output_size)},
            g \in Granules, e \in BOOLEAN, pg \in PageEnds, cf \in cfs }

\* The answers the collaborators give during one decode() call on decoder d with
\* arguments a.  With no input bytes the demuxer has nothing to deliver.
Answers(d, a) ==
    IF decode_preconditions(d, a) # OGG_OPUS_OK THEN { NoAnswer }
    ELSE IF a.input_len = 0 THEN { NoAnswer }
    ELSE
        { Answer(st, n, NoPacket, 0, FALSE, FALSE, FALSE, FALSE, FALSE, FALSE) :
            st \in {OGG_NEED_MORE_DATA, OGG_PACKET_SKIPPED} \cup OggErrors,
            n \in 0..a.input_len }
        \cup Deliveries(d, a)

\* the output buffers callers pass (pointer, size): none, a pointer with no
\* room, and two usable ones
OutputBuffers == { <<FALSE, 0>>, <<TRUE, 0>>, <<TRUE, 1000>>, <<TRUE, 5760>> }

\* the arguments callers pass: a null or non-null input pointer, an input
\* length from 0, and each kind of output buffer
Args ==
    { [input |-> i, input_len |-> n, output |-> o[1], output_size |-> o[2]] :
        i \in BOOLEAN, n \in 0..MaxInputLen, o \in OutputBuffers }

Call(a, e) ==
    [input |-> a.input, input_len |-> a.input_len, output |-> a.output,
     output_size |-> a.output_size, status |-> e.status, consumed |-> e.consumed,
     pkt |-> e.pkt, granule |-> e.granule, bos |-> e.bos, eos |-> e.eos,
     last_on_page |-> e.last_on_page, cont_flag |-> e.cont_flag,
     prev_ended |-> e.prev_ended, create_ok |-> e.create_ok]

\* every call of decode() that can be made on decoder d, with the collaborators'
\* answers during it
Calls(d) == UNION { { Call(a, e) : e \in Answers(d, a) } : a \in Args }

\* the demuxer hands a packet to process_packet during call c
Delivers(c) == c.status = OGG_OK

\* no chunk-fed session is in progress
NoRun ==
    [stream |-> <<>>, off |-> 0, pos |-> 0, next |-> 1, outs |-> <<>>, total |-> 0,
     clean |-> TRUE, calls |-> 0]

\* no decode loop with a buffer of its own is in progress
NoLoop == [cap |-> 0, chunk |-> 0, done |-> FALSE, tick |-> 0]

\* no page sequence is being followed
NoPage == [first |-> TRUE, cont |-> FALSE, ended_mid |-> FALSE, checks |-> 0]

\* no second instance is in use
NoPeer == <<>>

\* thread_local_stack.c is not in use
NoTls == <<>>

\* no call of parse_opus_head on its own is in progress
NoParse == [packet |-> PktHeadStereo, head |-> ZeroHead, result |-> "none", parsed |-> FALSE]

Init ==
    /\ \E cfg \in Configs : dec = NewDecoder(cfg[1], cfg[2], cfg[3])
    /\ fed = 0
    /\ reported = 0
    /\ run = NoRun
    /\ hdr = NoParse
    /\ page = NoPage /\ peer = NoPeer /\ tls = NoTls
    /\ loop = NoLoop

\* one call of decode() by the owner of the instance
DecodeCall ==
    /\ \E c \in Calls(dec) :
           /\ Delivers(c) => fed < MaxPackets
           /\ \E r \in { decode(dec, c) } :
                  /\ dec' = r.d
                  /\ reported' = reported + (IF r.written THEN r.samples_decoded ELSE 0)
           /\ fed' = IF Delivers(c) THEN fed + 1 ELSE fed
    /\ UNCHANGED <<run, hdr, loop, page, peer, tls>>

\* one call of reset(); it also resets the demuxer
ResetCall ==
    /\ dec' = reset(dec)
    /\ fed' = 0
    /\ reported' = 0
    /\ UNCHANGED <<run, hdr, loop, page, peer, tls>>

Next == DecodeCall \/ ResetCall

Spec == Init /\ [][Next]_vars

(***************************************************************************)
(* Feeding one stream in chunks.  The packet source is outside the         *)
(* repository; here it is the contract the decoder relies on: it takes the *)
(* bytes it is given in order, keeps what it was given of an unfinished    *)
(* packet, and hands out a packet with the call that gives it the packet's *)
(* last byte, consuming no byte beyond it.                                 *)
(***************************************************************************)
\* one packet of a stream: the packet (Catalogue index), the bytes it takes in
\* the stream with its share of the page framing, and the page fields
Seg(p, size, g, b, e, l) ==
    [pkt |-> p, size |-> size, granule |-> g, bos |-> b, eos |-> e, last_on_page |-> l]

\* valid streams: identification header alone on the first page, comment header
\* on the next, audio after it, end-of-stream on the last page
Streams ==
    { << Seg(1, 3, 0, TRUE, FALSE, TRUE), Seg(5, 2, 0, FALSE, FALSE, TRUE),
         Seg(7, 2, 960, FALSE, FALSE, TRUE), Seg(7, 2, 1920, FALSE, TRUE, TRUE) >>,
      << Seg(2, 3, 0, TRUE, FALSE, TRUE), Seg(5, 3, 0, FALSE, FALSE, TRUE),
         Seg(8, 1, 0 - 1, FALSE, FALSE, FALSE), Seg(8, 2, 960, FALSE, TRUE, TRUE) >>,
      << Seg(3, 4, 0, TRUE, FALSE, TRUE), Seg(5, 2, 0, FALSE, FALSE, TRUE),
         Seg(7, 2, 960, FALSE, FALSE, TRUE), Seg(8, 2, 1440, FALSE, FALSE, TRUE),
         Seg(7, 2, 2400, FALSE, TRUE, TRUE) >>,
      << Seg(1, 3, 0, TRUE, FALSE, TRUE), Seg(5, 2, 0, FALSE, FALSE, TRUE),
         Seg(8, 3, 480, FALSE, TRUE, TRUE) >> }

RECURSIVE StreamEnd(_, _)
\* the offset in stream s at which its packet i ends
StreamEnd(s, i) == IF i = 0 THEN 0 ELSE StreamEnd(s, i - 1) + s[i].size

StreamLen(s) == StreamEnd(s, Len(s))

\* getNextPacket on a slice of len bytes that starts at offset off of stream s,
\* by a demuxer that has taken pos bytes and handed out the packets before next:
\* its answer and its position after the call.  Bytes that do not continue what
\* it has taken are a structural error.
ogg_getNextPacket(s, pos, next, off, len) ==
    IF off # pos
    THEN [e |-> Answer(OGG_CRC_FAILED, len, NoPacket, 0, FALSE, FALSE, FALSE, FALSE,
                       FALSE, FALSE),
          pos |-> pos, next |-> next]
    ELSE IF next > Len(s)
    THEN [e |-> NoAnswer, pos |-> pos, next |-> next]
    ELSE IF len >= StreamEnd(s, next) - pos
    THEN [e |-> Answer(OGG_OK, StreamEnd(s, next) - pos, s[next].pkt, s[next].granule,
                       s[next].bos, s[next].eos, s[next].last_on_page, FALSE, FALSE,
                       TRUE),
          pos |-> StreamEnd(s, next), next |-> next + 1]
    ELSE [e |-> Answer(OGG_NEED_MORE_DATA, len, NoPacket, 0, FALSE, FALSE, FALSE, FALSE,
                       FALSE, FALSE),
          pos |-> pos + len, next |-> next]

\* the arguments of a call that feeds len bytes, with room for any frame
ChunkArgs(len) ==
    [input |-> TRUE, input_len |-> len, output |-> TRUE, output_size |-> 5760]

\* The caller after a call that returned r while the demuxer did g: it advances
\* by bytes_consumed, adds up the samples, logs the outcome of a call that was
\* given a packet, and notes a call without a packet that did not return OK
\* with no samples.
ChunkAfter(st, g, r) ==
    [d |-> r.d,
     samples |-> IF r.written THEN r.samples_decoded ELSE 0,
     run |-> [st EXCEPT
                !.off = @ + (IF r.written THEN r.bytes_consumed ELSE 0),
                !.pos = IF r.consulted THEN g.pos ELSE @,
                !.next = IF r.consulted THEN g.next ELSE @,
                !.outs = IF r.consulted /\ g.e.status = OGG_OK
                         THEN Append(@, <<r.result, r.samples_decoded>>)
                         ELSE @,
                !.total = @ + (IF r.written THEN r.samples_decoded ELSE 0),
                !.clean = /\ @
                          /\ \/ r.consulted /\ g.e.status = OGG_OK
                             \/ r.result = OGG_OPUS_OK /\ r.written /\ r.samples_decoded = 0,
                !.calls = @ + 1]]

ChunkWith(d, st, len, g) == ChunkAfter(st, g, decode(d, Call(ChunkArgs(len), g.e)))

\* one decode() call of the feeding loop on the next len bytes of the stream
ChunkCall(d, st, len) ==
    ChunkWith(d, st, len, ogg_getNextPacket(st.stream, st.pos, st.next, st.off, len))

RECURSIVE OneShot(_, _, _)
\* the session that hands decoder d all the bytes that are left with every call
\* (at most fuel calls): the caller at its end
OneShotNext(x, fuel) == OneShot(x.d, x.run, fuel)

OneShot(d, st, fuel) ==
    IF st.off >= StreamLen(st.stream) \/ fuel = 0 THEN st
    ELSE OneShotNext(ChunkCall(d, st, StreamLen(st.stream) - st.off), fuel - 1)

\* the one-shot session on stream s with a decoder constructed like d
Reference(d, s) ==
    OneShot(NewDecoder(d.enable_crc_, d.sample_rate_, d.channels_),
            [NoRun EXCEPT !.stream = s], Len(s) + 1)

InitChunk ==
    /\ \E cfg \in Configs : dec = NewDecoder(cfg[1], cfg[2], cfg[3])
    /\ fed = 0
    /\ reported = 0
    /\ \E s \in Streams : run = [NoRun EXCEPT !.stream = s]
    /\ hdr = NoParse
    /\ page = NoPage /\ peer = NoPeer /\ tls = NoTls
    /\ loop = NoLoop

\* the caller feeds the next chunk, of any size up to MaxChunk
FeedChunk ==
    /\ run.off < StreamLen(run.stream)
    /\ \E len \in 1..Min(MaxChunk, StreamLen(run.stream) - run.off) :
           \E x \in { ChunkCall(dec, run, len) } :
               /\ dec' = x.d
               /\ run' = x.run
               /\ reported' = reported + x.samples
               /\ fed' = Len(x.run.outs)
    /\ UNCHANGED <<hdr, loop, page, peer, tls>>

NextChunk == FeedChunk

SpecChunk == InitChunk /\ [][NextChunk]_vars

(***************************************************************************)
(* The decode loop of a caller that owns its output buffer: it feeds the   *)
(* stream in chunks of a fixed size, advances by bytes_consumed, leaves    *)
(* the loop on an error, and on OUTPUT_BUFFER_TOO_SMALL resizes its buffer *)
(* to get_required_output_buffer_size() bytes and goes on.                 *)
(***************************************************************************)
\* the arguments of a call that feeds len bytes with a buffer of cap bytes
LoopArgs(len, cap) ==
    [input |-> TRUE, input_len |-> len, output |-> TRUE, output_size |-> cap]

\* the caller after a call of its loop that returned r while the demuxer did g:
\* it has advanced and added up the samples as the chunk-fed session does (it
\* counts no calls, it only notes that it has made one more), and it has
\* left the loop or resized its buffer if the call did not return OK
LoopAfter(st, lp, g, r) ==
    [d |-> r.d,
     samples |-> ChunkAfter(st, g, r).samples,
     run |-> [ChunkAfter(st, g, r).run EXCEPT !.calls = 0],
     loop |-> IF r.result = OGG_OPUS_OK THEN [lp EXCEPT !.tick = 1 - @]
              ELSE IF r.result = OGG_OPUS_OUTPUT_BUFFER_TOO_SMALL
              THEN [lp EXCEPT !.tick = 1 - @,
                              !.cap = get_required_output_buffer_size(r.d)]
              ELSE [lp EXCEPT !.tick = 1 - @, !.done = TRUE]]

InitLoop ==
    /\ \E cfg \in Configs : dec = NewDecoder(cfg[1], cfg[2], cfg[3])
    /\ fed = 0
    /\ reported = 0
    /\ \E s \in Streams : run = [NoRun EXCEPT !.stream = s]
    /\ hdr = NoParse
    /\ page = NoPage /\ peer = NoPeer /\ tls = NoTls
    /\ \E cap \in OutputSizes, chunk \in 1..MaxChunk :
           loop = [cap |-> cap, chunk |-> chunk, done |-> FALSE, tick |-> 0]

\* the body of the loop: one decode() call on the unconsumed bytes, at most
\* one chunk of them
LoopStep ==
    /\ ~loop.done
    /\ run.off < StreamLen(run.stream)
    /\ \E len \in { Min(loop.chunk, StreamLen(run.stream) - run.off) } :
       \E g \in { ogg_getNextPacket(run.stream, run.pos, run.next, run.off, len) } :
       \E c \in { Call(LoopArgs(len, loop.cap), g.e) } :
       \E r \in { decode(dec, c) } :
       \E x \in { LoopAfter(run, loop, g, r) } :
           /\ dec' = x.d
           /\ run' = x.run
           /\ loop' = x.loop
           /\ reported' = reported + x.samples
           /\ fed' = Len(x.run.outs)
    /\ UNCHANGED <<hdr, page, peer, tls>>

NextLoop == LoopStep

\* the loop goes on for as long as its condition holds
SpecLoop == InitLoop /\ [][NextLoop]_vars /\ WF_vars(LoopStep)

(***************************************************************************)
(* The header parser on its own: parse_opus_head called on packets built   *)
(* from every combination of a few values of each field, whole and cut     *)
(* short, with a zeroed structure and with one that holds an earlier       *)
(* header.                                                                 *)
(***************************************************************************)
\* a channel mapping table of n entries: first entry a, the others b
TablePattern(n, a, b) == [i \in 1..n |-> IF i = 1 THEN a ELSE b]

\* the first len octets of a sequence
Prefix(b, len) == IF len >= Len(b) THEN b ELSE SubSeq(b, 1, len)

\* the packet with the given octets, all of them in view of the parser
RawPacket(b) == [bytes |-> b, length |-> Len(b), nb48 |-> OPUS_INVALID_PACKET, codec_ok |-> FALSE]

\* values of the fields the parser checks
ParseMagics == { OpusHeadMagic, OpusTagsMagic }
ParseVersions == { 1, 2 }
ParseChannels == { 0, 1, 2, 3, 9 }
ParseFamilies == { 0, 1, 255 }
ParseCounts == { 0, 1, 2 }
ParseEntries == { 0, 1, 4, 255 }
\* octets cut from the end of the packet
ParseCuts == { 0, 1, 3 }
\* lengths of packets that end before the mapping part
ParseShortLens == { 7, 8, 18, 19, 20 }

\* the octets of a packet with the given fields, mapping part included
ParseBytes(magic, version, channels, family, streams, coupled, a, b) ==
    magic \o <<version, channels>> \o le16(312) \o le32(48000) \o le16(65280)
        \o <<family, streams, coupled>> \o TablePattern(channels, a, b)

ParsePackets ==
    UNION { { RawPacket(Prefix(full, Len(full) - k)) : k \in ParseCuts }
            \cup { RawPacket(Prefix(full, n)) : n \in ParseShortLens } :
        full \in { ParseBytes(m, v, ch, f, sc, cc, a, b) :
                     m \in ParseMagics, v \in ParseVersions, ch \in ParseChannels,
                     f \in ParseFamilies, sc \in ParseCounts, cc \in ParseCounts,
                     a \in ParseEntries, b \in ParseEntries } }

\* a structure that holds an earlier header (three channels, two streams)
StaleHead == parse_opus_head(PktHeadSurround, ZeroHead).head

InitParse ==
    /\ \E cfg \in Configs : dec = NewDecoder(cfg[1], cfg[2], cfg[3])
    /\ fed = 0
    /\ reported = 0
    /\ run = NoRun
    /\ \E packet \in ParsePackets, head \in { ZeroHead, StaleHead } :
           hdr = [packet |-> packet, head |-> head, result |-> "none", parsed |-> FALSE]
    /\ loop = NoLoop
    /\ page = NoPage /\ peer = NoPeer /\ tls = NoTls

\* the call parse_opus_head(packet, packet_len, head)
ParseCall ==
    /\ ~hdr.parsed
    /\ \E r \in { parse_opus_head(hdr.packet, hdr.head) } :
           hdr' = [hdr EXCEPT !.head = r.head, !.result = r.result, !.parsed = TRUE]
    /\ UNCHANGED <<dec, fed, reported, run, loop, page, peer, tls>>

NextParse == ParseCall

SpecParse == InitParse /\ [][NextParse]_vars

(***************************************************************************)
(* Properties.  A property about "every call" is stated over Calls(dec):   *)
(* every call that can be made on the decoder of a reachable state, with   *)
(* every answer of the collaborators.                                      *)
(***************************************************************************)
\* the place of a dispatch state in the order HEAD, TAGS, DECODING
StateRank(s) ==
    IF s = STATE_EXPECT_OPUS_HEAD THEN 0
    ELSE IF s = STATE_EXPECT_OPUS_TAGS THEN 1
    ELSE 2

\* the page-continuation check at the head of process_packet refuses call c
ContinuationRefused(d, c) ==
    d.packets_on_current_page_ = 0 /\ c.cont_flag # d.expect_continued_packet_

\* C1: no call of decode(), whatever the packet, the packet source's result or
\* the error, moves the dispatch state backwards or from EXPECT_OPUS_HEAD
\* straight to DECODING; it stays or advances by one step.  reset() returns it
\* to EXPECT_OPUS_HEAD from every state.
C1_StateOnlyAdvances ==
    /\ \A c \in Calls(dec) :
           /\ StateRank(decode(dec, c).d.state_) >= StateRank(dec.state_)
           /\ StateRank(decode(dec, c).d.state_) <= StateRank(dec.state_) + 1
    /\ reset(dec).state_ = STATE_EXPECT_OPUS_HEAD

\* a decoder that has advanced through both header states and has been fed
\* every packet the bound allows
C1_Witness == dec.state_ = STATE_DECODING /\ fed = MaxPackets

\* C2 as stated: once the end-of-stream flag has been recorded, every call with
\* non-empty input, for any output pointer and any output size, returns
\* INPUT_INVALID without consulting the packet source.
C2_EosLatchAnyOutput ==
    dec.eos_seen_ =>
        \A c \in Calls(dec) :
            (c.input /\ c.input_len > 0) =>
                /\ decode(dec, c).result = OGG_OPUS_INPUT_INVALID
                /\ ~decode(dec, c).consulted

\* C2 (amended): an audio packet with the end-of-stream flag that reaches the
\* audio handler sets the latch, whatever the handler then returns.  While the
\* latch is set the decoder is in DECODING and every call with a non-null input
\* returns without consulting the packet source and without changing the
\* decoder: OUTPUT_BUFFER_TOO_SMALL when the output pointer is non-null and
\* output_size is 0 (that check comes first), INPUT_INVALID otherwise.  reset()
\* clears the latch.
C2_EosLatch ==
    /\ \A c \in Calls(dec) :
           (dec.state_ = STATE_DECODING /\ Delivers(c) /\ c.eos
                /\ ~ContinuationRefused(dec, c))
               => decode(dec, c).d.eos_seen_
    /\ dec.eos_seen_ =>
           /\ dec.state_ = STATE_DECODING
           /\ \A c \in Calls(dec) :
                  c.input =>
                      /\ decode(dec, c).result =
                             IF c.output /\ c.output_size = 0
                             THEN OGG_OPUS_OUTPUT_BUFFER_TOO_SMALL
                             ELSE OGG_OPUS_INPUT_INVALID
                      /\ ~decode(dec, c).consulted
                      /\ decode(dec, c).d = dec
    /\ ~reset(dec).eos_seen_

\* the latch is set after samples have been produced, and a call with
\* non-empty input is answered OUTPUT_BUFFER_TOO_SMALL
C2_Witness ==
    /\ dec.eos_seen_
    /\ dec.samples_decoded_total_ > 0
    /\ \E c \in Calls(dec) :
           /\ c.input /\ c.input_len > 0
           /\ decode(dec, c).result = OGG_OPUS_OUTPUT_BUFFER_TOO_SMALL

\* C3 as stated: a call that returns OUTPUT_BUFFER_TOO_SMALL reports no consumed
\* bytes, leaves the decoder as it was, and a retry with a larger buffer (the
\* packet source answering as before) gives what the larger buffer would have
\* given at once.
C3_TooSmallSideEffectFree ==
    \A c \in Calls(dec) :
        decode(dec, c).result = OGG_OPUS_OUTPUT_BUFFER_TOO_SMALL =>
            /\ decode(dec, c).written => decode(dec, c).bytes_consumed = 0
            /\ decode(dec, c).d = dec
            /\ \A size \in OutputSizes :
                   size > c.output_size =>
                       decode(decode(dec, c).d, [c EXCEPT !.output_size = size]).result
                           = decode(dec, [c EXCEPT !.output_size = size]).result

\* an audio packet with the end-of-stream flag was refused for lack of room
\* before any audio was decoded: the latch is set and the required size recorded
C3_Witness ==
    /\ dec.eos_seen_
    /\ dec.samples_decoded_total_ = 0
    /\ dec.last_required_buffer_bytes_ > 1000

\* C4 as stated: after a call that returns ALLOCATION_FAILED the decoder is
\* still in its first state and some later call, without reset(), gets an
\* identification header accepted.
C4_AllocationFailedRetryable ==
    \A c \in Calls(dec) :
        decode(dec, c).result = OGG_OPUS_ALLOCATION_FAILED =>
            /\ decode(dec, c).d.state_ = STATE_EXPECT_OPUS_HEAD
            /\ \E c2 \in Calls(decode(dec, c).d) :
                   /\ decode(decode(dec, c).d, c2).result = OGG_OPUS_OK
                   /\ decode(decode(dec, c).d, c2).d.state_ = STATE_EXPECT_OPUS_TAGS

\* codec construction has failed: the header is parsed and latched, no codec
\* exists and the decoder still waits for the identification header
C4_Witness ==
    /\ dec.state_ = STATE_EXPECT_OPUS_HEAD
    /\ dec.has_seen_opus_head_
    /\ dec.output_channels_ > 0
    /\ ~dec.opus_decoder_ /\ ~dec.opus_ms_decoder_

DecodesAudio(d, c) ==
    /\ d.state_ = STATE_DECODING
    /\ Delivers(c)
    /\ ~ContinuationRefused(d, c)
    /\ Decodable(d, Catalogue[c.pkt], c.output_size)

\* C6: no call of decode() lowers last_granule_position_.  A decoded packet that
\* carries a valid granule position (> 0) lower than the last one stored (> 0) is
\* refused with INPUT_INVALID, with no samples reported and the stored position
\* kept, whether or not it is the last packet of its page.  A packet whose
\* granule position is unset (0 or the all-ones sentinel) passes
\* validate_granule_position with OK and no change of the decoder.
C6_MonotonicGranule ==
    /\ \A c \in Calls(dec) :
           /\ decode(dec, c).d.last_granule_position_ >= dec.last_granule_position_
           /\ (DecodesAudio(dec, c) /\ c.granule > 0
                   /\ dec.last_granule_position_ > 0
                   /\ c.granule < dec.last_granule_position_)
                  => /\ decode(dec, c).result = OGG_OPUS_INPUT_INVALID
                     /\ decode(dec, c).samples_decoded = 0
                     /\ decode(dec, c).d.last_granule_position_
                            = dec.last_granule_position_
    /\ \A g \in {0 - 1, 0}, n \in {80, 960}, e \in BOOLEAN, l \in BOOLEAN :
           validate_granule_position(dec, g, n, e, l)
               = [d |-> dec, result |-> OGG_OPUS_OK]

\* position 960 is stored and a decoded packet carrying 480 is refused
C6_Witness ==
    /\ dec.last_granule_position_ = 960
    /\ \E c \in Calls(dec) :
           /\ DecodesAudio(dec, c)
           /\ c.granule = 480
           /\ c.last_on_page
           /\ decode(dec, c).result = OGG_OPUS_INPUT_INVALID

\* the first-page accumulation is running or about to start
FirstPageArmed(d) ==
    \/ d.first_audio_page_samples_ >= 0
    \/ d.first_audio_page_samples_ = 0 - 1 /\ d.last_granule_position_ = 0

\* the accumulated count of the first page once a packet of n samples is added
FirstPageCount(d, n) ==
    (IF d.first_audio_page_samples_ >= 0 THEN d.first_audio_page_samples_ ELSE 0) + n

\* C7: from the first decoded packet that carries a valid granule position, the
\* decoded sample counts of the packets carrying one are accumulated in
\* first_audio_page_samples_.  At the packet that is last on its page the call
\* returns INPUT_INVALID when the granule position is smaller than the
\* accumulated count and the packet does not carry end-of-stream; otherwise
\* (end-of-stream, or a position that covers the count) the accumulation is
\* closed and a position not below the stored one is accepted.  Once closed,
\* with a position stored, the accumulation is never started again by decode().
C7_FirstAudioPage ==
    /\ \A c \in Calls(dec) :
           (DecodesAudio(dec, c) /\ c.granule > 0) =>
               LET n == opus_packet_get_nb_samples(Catalogue[c.pkt], dec.sample_rate_)
                   after == decode(dec, c)
               IN
               /\ (FirstPageArmed(dec) /\ ~c.last_on_page)
                      => after.d.first_audio_page_samples_ = FirstPageCount(dec, n)
               /\ (FirstPageArmed(dec) /\ c.last_on_page /\ ~c.eos
                       /\ c.granule < FirstPageCount(dec, n))
                      => /\ after.result = OGG_OPUS_INPUT_INVALID
                         /\ after.samples_decoded = 0
               /\ (FirstPageArmed(dec) /\ c.last_on_page
                       /\ (c.eos \/ c.granule >= FirstPageCount(dec, n)))
                      => /\ after.d.first_audio_page_samples_ = 0 - 1
                         /\ (c.granule >= dec.last_granule_position_
                                 /\ ValidSampleRate(dec.sample_rate_))
                                => after.result = OGG_OPUS_OK
               /\ ~FirstPageArmed(dec)
                      => after.d.first_audio_page_samples_ = 0 - 1
    /\ (dec.first_audio_page_samples_ = 0 - 1 /\ dec.last_granule_position_ > 0)
           => \A c \in Calls(dec) :
                  /\ decode(dec, c).d.first_audio_page_samples_ = 0 - 1
                  /\ decode(dec, c).d.last_granule_position_ > 0

\* one packet of the first page has been counted, and the packet that ends the
\* page with end-of-stream and a position below the count is accepted
C7_Witness ==
    /\ dec.first_audio_page_samples_ = 960
    /\ \E c \in Calls(dec) :
           /\ DecodesAudio(dec, c)
           /\ c.last_on_page /\ c.eos
           /\ c.granule = 960
           /\ FirstPageCount(dec, 960) = 1920
           /\ decode(dec, c).result = OGG_OPUS_OK
           /\ decode(dec, c).d.first_audio_page_samples_ = 0 - 1

\* the pre-skip of the stored header at the output rate; 0 before a header is
\* stored
PreSkipAtRate(d) ==
    IF d.opus_head_ = <<>> THEN 0
    ELSE (d.opus_head_[1].pre_skip * d.sample_rate_) \div OPUS_SAMPLE_RATE_48K

Max(a, b) == IF a > b THEN a ELSE b

\* C8: after every call the sum of the samples_decoded values reported since
\* construction or reset equals max(0, samples_decoded_total_ - floor(pre_skip *
\* rate / 48000)), and every call that decodes an audio packet and returns OK
\* adds the frame's whole sample count to samples_decoded_total_ and reports
\* max(0, total after - pre-skip) - max(0, total before - pre-skip) of it.
C8_PreSkipConservation ==
    /\ reported = Max(0, dec.samples_decoded_total_ - PreSkipAtRate(dec))
    /\ \A c \in Calls(dec) :
           (DecodesAudio(dec, c) /\ decode(dec, c).result = OGG_OPUS_OK) =>
               LET n == opus_packet_get_nb_samples(Catalogue[c.pkt], dec.sample_rate_)
                   total == dec.samples_decoded_total_
               IN
               /\ decode(dec, c).d.samples_decoded_total_ = total + n
               /\ decode(dec, c).samples_decoded
                      = Max(0, total + n - PreSkipAtRate(dec))
                            - Max(0, total - PreSkipAtRate(dec))

\* a pre-skip of 1000 samples at 48 kHz swallowed the first frame of 960 samples
\* and 40 samples of the second
C8_Witness ==
    /\ PreSkipAtRate(dec) = 1000
    /\ dec.samples_decoded_total_ = 1920
    /\ reported = 920
    /\ dec.pre_skip_applied_

\* the decoder after the identification header of the scenario (version 1, two
\* channels, pre-skip 312, mapping family 0) and a comment header, at 48 kHz with
\* the channel count taken from the header, before any audio
ScenarioStart(d) ==
    /\ d.state_ = STATE_DECODING
    /\ d.opus_head_ # <<>>
    /\ d.opus_head_[1].version = 1
    /\ d.opus_head_[1].channel_count = 2
    /\ d.opus_head_[1].pre_skip = 312
    /\ d.opus_head_[1].channel_mapping = 0
    /\ d.sample_rate_ = OPUS_SAMPLE_RATE_48K
    /\ d.output_channels_ = 2
    /\ d.samples_decoded_total_ = 0
    /\ d.last_granule_position_ = 0
    /\ d.first_audio_page_samples_ = 0 - 1
    /\ ~d.eos_seen_

\* C10: from the decoder of the scenario, the call that delivers one audio
\* packet of 960 samples with granule position 960 and end-of-stream set, into
\* a buffer with room for it, returns OK, reports 960 - 312 = 648 samples and
\* sets pre_skip_applied_.
C10_Scenario ==
    \A c \in Calls(dec) :
        (ScenarioStart(dec) /\ DecodesAudio(dec, c)
             /\ Catalogue[c.pkt] = PktAudio20ms /\ c.granule = 960 /\ c.eos)
            => /\ decode(dec, c).result = OGG_OPUS_OK
               /\ decode(dec, c).samples_decoded = 648
               /\ decode(dec, c).d.pre_skip_applied_
               /\ decode(dec, c).d.samples_decoded_total_ = 960

\* the scenario has run: 648 samples reported in all, latch set, stream ended
C10_Witness ==
    /\ dec.opus_head_ # <<>>
    /\ dec.opus_head_[1].pre_skip = 312
    /\ dec.opus_head_[1].channel_count = 2
    /\ dec.sample_rate_ = OPUS_SAMPLE_RATE_48K
    /\ dec.eos_seen_
    /\ dec.last_granule_position_ = 960
    /\ dec.samples_decoded_total_ = 960
    /\ reported = 648
    /\ dec.pre_skip_applied_
\* C9: a valid stream fed in chunks of any sizes, the caller advancing by
\* bytes_consumed, gives the results of the one-shot session: no call that was
\* given no packet returns an error or samples, the outcomes (result and sample
\* count) of the calls that were given a packet are those of the one-shot
\* session in the same order, and at the end of the stream all packets have
\* been decoded with the same total; every result of the one-shot session is OK.
C9_ChunkInvariance ==
    LET ref == Reference(dec, run.stream) IN
    /\ run.clean
    /\ Len(run.outs) <= Len(ref.outs)
    /\ \A i \in 1..Len(run.outs) : run.outs[i] = ref.outs[i]
    /\ \A i \in 1..Len(ref.outs) : ref.outs[i][1] = OGG_OPUS_OK
    /\ Len(ref.outs) = Len(run.stream)
    /\ run.off = StreamLen(run.stream) =>
           /\ run.outs = ref.outs
           /\ run.off = run.pos
           /\ run.total = ref.total
           /\ reported = ref.total

\* a stream of five packets fed to its end one byte at a time
C9_Witness ==
    /\ Len(run.stream) = 5
    /\ run.off = StreamLen(run.stream)
    /\ run.calls = StreamLen(run.stream)
    /\ Len(run.outs) = 5
    /\ reported > 0

\* the codec handle of the decoder, single-stream or multistream, exists
HasCodec(d) == d.opus_decoder_ \/ d.opus_ms_decoder_

\* C11: in every state reached by decode() and reset() calls, a decoder that has
\* left EXPECT_OPUS_HEAD holds a codec handle (exactly one of the two kinds),
\* and no call of decode() returns NOT_INITIALIZED.
C11_NotInitializedUnreachable ==
    /\ dec.state_ # STATE_EXPECT_OPUS_HEAD => HasCodec(dec)
    /\ ~(dec.opus_decoder_ /\ dec.opus_ms_decoder_)
    /\ \A c \in Calls(dec) : decode(dec, c).result # OGG_OPUS_NOT_INITIALIZED

\* a decoder in DECODING with a multistream codec, to which an audio packet is
\* delivered that passes the codec-handle test and is decoded
C11_Witness ==
    /\ dec.state_ = STATE_DECODING
    /\ dec.opus_ms_decoder_
    /\ \E c \in Calls(dec) :
           /\ DecodesAudio(dec, c)
           /\ decode(dec, c).result = OGG_OPUS_OK
           /\ decode(dec, c).samples_decoded > 0

\* C12: while the decoder holds a codec handle (the identification header was
\* accepted and the codec constructed), no call of decode() returns
\* ALLOCATION_FAILED, and every call leaves the handle in place and the decoder
\* out of EXPECT_OPUS_HEAD.  A call returns ALLOCATION_FAILED only in
\* EXPECT_OPUS_HEAD, on the first identification header.  reset() releases the
\* handle.
C12_NoAllocationFailureOnceConstructed ==
    /\ \A c \in Calls(dec) :
           /\ HasCodec(dec) =>
                  /\ decode(dec, c).result # OGG_OPUS_ALLOCATION_FAILED
                  /\ HasCodec(decode(dec, c).d)
                  /\ decode(dec, c).d.state_ # STATE_EXPECT_OPUS_HEAD
           /\ decode(dec, c).result = OGG_OPUS_ALLOCATION_FAILED =>
                  /\ dec.state_ = STATE_EXPECT_OPUS_HEAD
                  /\ ~dec.has_seen_opus_head_
    /\ ~HasCodec(reset(dec))

\* the codec was constructed, and a call that delivers an identification header
\* again is refused with INPUT_INVALID, not ALLOCATION_FAILED
C12_Witness ==
    /\ HasCodec(dec)
    /\ dec.state_ = STATE_EXPECT_OPUS_TAGS
    /\ \E c \in Calls(dec) :
           /\ Delivers(c)
           /\ is_opus_head(Catalogue[c.pkt])
           /\ decode(dec, c).result = OGG_OPUS_INPUT_INVALID

\* a decoder constructed with the configuration of d that owns d's demuxer
\* object (the demuxer is created by the first decode() call that gets past the
\* argument checks, and reset() keeps it)
Fresh(d) ==
    [NewDecoder(d.enable_crc_, d.sample_rate_, d.channels_) EXCEPT
        !.ogg_demuxer_ = d.ogg_demuxer_]

\* what the caller of decode() sees of a call, and the decoder it leaves apart
\* from the existence of the demuxer object
Observed(r) == [r EXCEPT !.d = [@ EXCEPT !.ogg_demuxer_ = TRUE]]

C14_NoAllocationFailureAfterReset ==
    HasCodec(dec) =>
        \A c \in Calls(reset(dec)) :
            decode(reset(dec), c).result # OGG_OPUS_ALLOCATION_FAILED

\* an initialized decoder in DECODING on which reset() is followed by a call
\* that delivers an identification header and returns ALLOCATION_FAILED
C14_Witness ==
    /\ HasCodec(dec)
    /\ dec.state_ = STATE_DECODING
    /\ ~HasCodec(reset(dec))
    /\ \E c \in Calls(reset(dec)) :
           /\ Delivers(c)
           /\ ~c.create_ok
           /\ decode(reset(dec), c).result = OGG_OPUS_ALLOCATION_FAILED

C17_InitializedOnceHeadAccepted ==
    /\ is_initialized(dec) <=> dec.state_ # STATE_EXPECT_OPUS_HEAD
    /\ ~is_initialized(reset(dec))

\* the identification header is accepted and parsed and the codec constructed;
\* the decoder waits for the comment header and is_initialized() is false
C17_Witness ==
    /\ dec.state_ = STATE_EXPECT_OPUS_TAGS
    /\ dec.has_seen_opus_head_
    /\ dec.opus_head_ # <<>>
    /\ HasCodec(dec)
    /\ ~is_initialized(dec)

\* C18 as stated: while no identification header has been accepted (the decoder
\* is in EXPECT_OPUS_HEAD, a refused attempt included) get_sample_rate(),
\* get_channels(), get_pre_skip() and get_output_gain() all return 0; once one
\* has been accepted they return the output rate, the output channel count and
\* the pre-skip and output gain of the stored header.
C18_AccessorsAgree ==
    /\ dec.state_ = STATE_EXPECT_OPUS_HEAD =>
           /\ get_sample_rate(dec) = 0
           /\ get_channels(dec) = 0
           /\ get_pre_skip(dec) = 0
           /\ get_output_gain(dec) = 0
    /\ dec.state_ # STATE_EXPECT_OPUS_HEAD =>
           /\ get_sample_rate(dec) = dec.sample_rate_
           /\ get_channels(dec) = dec.output_channels_
           /\ get_channels(dec) > 0
           /\ get_pre_skip(dec) = dec.opus_head_[1].pre_skip
           /\ get_output_gain(dec) = dec.opus_head_[1].output_gain

\* an identification header was refused because the codec could not be
\* constructed: get_channels() returns the stream's count while the other
\* accessors return 0
C18_Witness ==
    /\ dec.state_ = STATE_EXPECT_OPUS_HEAD
    /\ ~HasCodec(dec)
    /\ get_channels(dec) = 2
    /\ get_sample_rate(dec) = 0
    /\ get_pre_skip(dec) = 0
    /\ get_output_gain(dec) = 0

\* C19 as stated: after every call of decode() that returns
\* OUTPUT_BUFFER_TOO_SMALL, get_required_output_buffer_size() is larger than
\* the output_size that was passed, and when the call was given a packet it is
\* that packet's sample count at the output rate x output channels x 2; while
\* the decoder has not reached DECODING it is 0.
C19_RequiredSizeAfterTooSmall ==
    /\ \A c \in Calls(dec) :
           decode(dec, c).result = OGG_OPUS_OUTPUT_BUFFER_TOO_SMALL =>
               /\ get_required_output_buffer_size(decode(dec, c).d) > c.output_size
               /\ Delivers(c) =>
                      get_required_output_buffer_size(decode(dec, c).d)
                          = opus_packet_get_nb_samples(Catalogue[c.pkt], dec.sample_rate_)
                                * dec.output_channels_ * SizeofInt16
    /\ dec.state_ # STATE_DECODING => get_required_output_buffer_size(dec) = 0

\* a decoder in DECODING that has processed no audio packet, on which a call
\* with a non-null output pointer and output_size 0 returns
\* OUTPUT_BUFFER_TOO_SMALL and leaves the required size at 0
C19_Witness ==
    /\ dec.state_ = STATE_DECODING
    /\ get_required_output_buffer_size(dec) = 0
    /\ \E c \in Calls(dec) :
           /\ c.input /\ c.input_len > 0 /\ c.output /\ c.output_size = 0
           /\ decode(dec, c).result = OGG_OPUS_OUTPUT_BUFFER_TOO_SMALL
           /\ get_required_output_buffer_size(decode(dec, c).d) = 0

\* the identification header was accepted as a packet that does not end its
\* page, and the page is still open: the packet delivered next is on the page
\* of the identification header
HeadPageOpen(d) == d.state_ = STATE_EXPECT_OPUS_TAGS /\ d.packets_on_current_page_ > 0

\* C20 as stated: when the page of the identification header carries another
\* packet, the call that delivers that packet returns INPUT_INVALID and leaves
\* the decoder out of DECODING, so that no audio of the stream is decoded.
C20_HeadAloneOnPage ==
    \A c \in Calls(dec) :
        (HeadPageOpen(dec) /\ Delivers(c)) =>
            /\ decode(dec, c).result = OGG_OPUS_INPUT_INVALID
            /\ decode(dec, c).d.state_ # STATE_DECODING

\* identification header, comment header and an audio packet have been
\* delivered on one page that is still open, and the audio has been decoded
C20_Witness ==
    /\ dec.state_ = STATE_DECODING
    /\ fed = 3
    /\ dec.packets_on_current_page_ = 3
    /\ dec.samples_decoded_total_ > 0
    /\ reported > 0

\* C21 as stated: in EXPECT_OPUS_TAGS a call that delivers a comment header
\* which shares its page with another packet (one before it: the page already
\* counts a packet; one after it: the comment header is not the last packet on
\* the page) or which carries a nonzero granule position returns INPUT_INVALID.
C21_TagsAloneOnPage ==
    \A c \in Calls(dec) :
        (dec.state_ = STATE_EXPECT_OPUS_TAGS /\ Delivers(c)
             /\ is_opus_tags(Catalogue[c.pkt])
             /\ (dec.packets_on_current_page_ > 0 \/ ~c.last_on_page \/ c.granule # 0))
            => decode(dec, c).result = OGG_OPUS_INPUT_INVALID

\* the identification header ended its page, the comment header was accepted
\* as the first packet of the next page, and an audio packet of that same page
\* has been decoded
C21_Witness ==
    /\ dec.state_ = STATE_DECODING
    /\ fed = 3
    /\ dec.packets_on_current_page_ = 2
    /\ dec.samples_decoded_total_ > 0

\* the decoder apart from the existence of its demuxer object, which the first
\* call that gets past the argument checks creates
StreamState(d) == [d EXCEPT !.ogg_demuxer_ = TRUE]

\* C22: a call of decode() in which the packet source reports need-more-data
\* returns OK, assigns samples_decoded = 0 and bytes_consumed = the count the
\* source reported (0 included), and changes no member of the decoder's stream
\* state.
C22_NeedMoreData ==
    \A c \in Calls(dec) :
        (decode(dec, c).consulted /\ c.status = OGG_NEED_MORE_DATA) =>
            /\ decode(dec, c).result = OGG_OPUS_OK
            /\ decode(dec, c).written
            /\ decode(dec, c).samples_decoded = 0
            /\ decode(dec, c).bytes_consumed = c.consumed
            /\ StreamState(decode(dec, c).d) = StreamState(dec)

\* a decoder in the middle of the audio of a page on which the source takes one
\* byte and needs more, and on which it takes none and needs more
C22_Witness ==
    /\ dec.state_ = STATE_DECODING
    /\ dec.packets_on_current_page_ > 0
    /\ dec.samples_decoded_total_ > 0
    /\ \E c \in Calls(dec) :
           /\ decode(dec, c).consulted /\ c.status = OGG_NEED_MORE_DATA
           /\ c.consumed = 1
           /\ decode(dec, c).bytes_consumed = 1
    /\ \E c \in Calls(dec) :
           /\ decode(dec, c).consulted /\ c.status = OGG_NEED_MORE_DATA
           /\ c.input_len > 0 /\ c.consumed = 0
           /\ decode(dec, c).bytes_consumed = 0

\* C23: a call of decode() in which the packet source reports a skipped packet
\* returns OK with samples_decoded = 0 and the source's count in
\* bytes_consumed.  In EXPECT_OPUS_TAGS it sets has_seen_opus_tags_ and moves to
\* DECODING, changing nothing else; in EXPECT_OPUS_HEAD and in DECODING it
\* changes no member of the stream state.
C23_PacketSkipped ==
    \A c \in Calls(dec) :
        (decode(dec, c).consulted /\ c.status = OGG_PACKET_SKIPPED) =>
            /\ decode(dec, c).result = OGG_OPUS_OK
            /\ decode(dec, c).written
            /\ decode(dec, c).samples_decoded = 0
            /\ decode(dec, c).bytes_consumed = c.consumed
            /\ StreamState(decode(dec, c).d) =
                   IF dec.state_ = STATE_EXPECT_OPUS_TAGS
                   THEN StreamState([dec EXCEPT !.has_seen_opus_tags_ = TRUE,
                                                !.state_ = STATE_DECODING])
                   ELSE StreamState(dec)

\* a decoder waiting for the comment header on which the source reports a
\* skipped packet, and the call moves it to DECODING
C23_Witness ==
    /\ dec.state_ = STATE_EXPECT_OPUS_TAGS
    /\ ~dec.has_seen_opus_tags_
    /\ \E c \in Calls(dec) :
           /\ decode(dec, c).consulted /\ c.status = OGG_PACKET_SKIPPED
           /\ decode(dec, c).d.state_ = STATE_DECODING
           /\ decode(dec, c).d.has_seen_opus_tags_

\* C24: a call of decode() in which the packet source reports one of its error
\* results returns INPUT_INVALID with samples_decoded = 0 and changes no member
\* of the stream state (dispatch state and latches included); this holds for
\* each of the eight error results.
C24_SourceErrorsInputInvalid ==
    \A c \in Calls(dec) :
        (decode(dec, c).consulted /\ c.status \in OggErrors) =>
            /\ decode(dec, c).result = OGG_OPUS_INPUT_INVALID
            /\ decode(dec, c).written
            /\ decode(dec, c).samples_decoded = 0
            /\ StreamState(decode(dec, c).d) = StreamState(dec)

\* a decoder that has decoded audio, on which each of the eight error results
\* of the source can arrive
C24_Witness ==
    /\ dec.state_ = STATE_DECODING
    /\ dec.last_granule_position_ > 0
    /\ \A st \in OggErrors :
           \E c \in Calls(dec) :
               /\ decode(dec, c).consulted /\ c.status = st
               /\ decode(dec, c).result = OGG_OPUS_INPUT_INVALID

(***************************************************************************)
(* The checks of parse_opus_head one by one, each read off the octets of   *)
(* the packet alone (an octet past the end of the packet counts as 0), in  *)
(* the order in which the function makes them.                             *)
(***************************************************************************)
\* the number of checks parse_opus_head makes
NumHeaderChecks == 8

\* whether the packet fails check k
HeaderCheckFails(packet, k) ==
    LET channels == Byte(packet, OPUS_MAGIC_SIGNATURE_SIZE + 1)
        family == Byte(packet, OPUS_MAGIC_SIGNATURE_SIZE + OPUS_HEAD_CHANNEL_MAPPING_OFFSET)
        streams == Byte(packet, OPUS_MAGIC_SIGNATURE_SIZE + OPUS_HEAD_STREAM_COUNT_OFFSET)
        coupled == Byte(packet, OPUS_MAGIC_SIGNATURE_SIZE + OPUS_HEAD_COUPLED_COUNT_OFFSET)
    IN
    CASE k = 1 -> ~is_opus_head(packet)
      [] k = 2 -> packet.length < MIN_OPUS_HEAD_SIZE
      [] k = 3 -> Byte(packet, OPUS_MAGIC_SIGNATURE_SIZE + 0) # 1
      [] k = 4 -> channels = 0
      [] k = 5 -> family # 0 /\ packet.length < MIN_OPUS_HEAD_SIZE_WITH_MAPPING + channels
      [] k = 6 -> /\ family # 0
                  /\ \E i \in 0..(channels - 1) :
                         /\ Byte(packet, MIN_OPUS_HEAD_SIZE_WITH_MAPPING + i) >= streams + coupled
                         /\ Byte(packet, MIN_OPUS_HEAD_SIZE_WITH_MAPPING + i) # 255
      [] k = 7 -> (family = 0 /\ channels > 2) \/ (family = 1 /\ channels > 8)
      [] k = 8 -> family # 0 /\ (streams = 0 \/ coupled > streams)

\* the result code of a failure of check k
HeaderCheckError(k) ==
    CASE k = 1 -> OPUS_HEADER_INVALID_MAGIC
      [] k = 2 -> OPUS_HEADER_TOO_SHORT
      [] k = 3 -> OPUS_HEADER_INVALID_VERSION
      [] k = 4 -> OPUS_HEADER_INVALID_CHANNELS
      [] k = 5 -> OPUS_HEADER_TOO_SHORT
      [] k = 6 -> OPUS_HEADER_INVALID_MAPPING
      [] k = 7 -> OPUS_HEADER_INVALID_CHANNELS
      [] k = 8 -> OPUS_HEADER_INVALID_MAPPING

\* the checks the packet fails
FailedHeaderChecks(packet) == { k \in 1..NumHeaderChecks : HeaderCheckFails(packet, k) }

\* the least number of a non-empty set of numbers
Least(S) == CHOOSE k \in S : \A j \in S : k <= j

\* C25: parse_opus_head reports the first failing check in the order magic,
\* length below 19, version, channel_count = 0, mapping length below
\* 21 + channel_count, mapping table entry, family channel count bound,
\* stream/coupled validity: the result for a packet is the error of the
\* earliest check it fails, and OPUS_HEADER_OK when it fails none.
C25_FirstFailingCheck ==
    hdr.parsed =>
        hdr.result = IF FailedHeaderChecks(hdr.packet) = {} THEN OPUS_HEADER_OK
                     ELSE HeaderCheckError(Least(FailedHeaderChecks(hdr.packet)))

\* parse_opus_head has returned for a packet of family 1 whose table is valid
\* and which fails both of the last two checks (nine channels, no stream):
\* the result is the error of the channel count bound.
C25_Witness ==
    /\ hdr.parsed
    /\ FailedHeaderChecks(hdr.packet) = { 7, 8 }
    /\ hdr.result = OPUS_HEADER_INVALID_CHANNELS

\* the entries of the stored mapping table that belong to the header's channels
TableEntries(head) ==
    { head.channel_mapping_table[i] :
        i \in { j \in 1..MaxTable : j <= head.channel_count } }

\* C26: whenever parse_opus_head returns OPUS_HEADER_OK the header it leaves
\* has version 1, at least one channel, at least one stream, no more coupled
\* streams than streams, and every mapping entry of its channels below
\* stream_count + coupled_count or equal to 255; with mapping family 0 it has
\* at most two channels, one stream, one coupled stream exactly when it has
\* two channels, and an all-zero table whatever the packet and the structure
\* held; with family 1 it has at most eight channels.
C26_ParsedHeaderInvariants ==
    (hdr.parsed /\ hdr.result = OPUS_HEADER_OK) =>
        LET head == hdr.head IN
        /\ head.version = 1
        /\ head.channel_count >= 1
        /\ head.stream_count >= 1
        /\ head.coupled_count <= head.stream_count
        /\ \A e \in TableEntries(head) :
               e < head.stream_count + head.coupled_count \/ e = 255
        /\ head.channel_mapping = 0 =>
               /\ head.channel_count <= 2
               /\ head.stream_count = 1
               /\ head.coupled_count = (IF head.channel_count = 2 THEN 1 ELSE 0)
               /\ head.channel_mapping_table = ZeroTable
        /\ head.channel_mapping = 1 => head.channel_count <= 8

\* parse_opus_head has accepted a family 0 header for two channels whose
\* packet goes on with a stream count of 2 and table entries 4 and 255: the
\* header has one stream, one coupled stream and a zero table.
C26_Witness ==
    /\ hdr.parsed /\ hdr.result = OPUS_HEADER_OK
    /\ hdr.head.channel_mapping = 0 /\ hdr.head.channel_count = 2
    /\ Byte(hdr.packet, OPUS_MAGIC_SIGNATURE_SIZE + OPUS_HEAD_STREAM_COUNT_OFFSET) = 2
    /\ Byte(hdr.packet, MIN_OPUS_HEAD_SIZE_WITH_MAPPING) = 4
    /\ Byte(hdr.packet, MIN_OPUS_HEAD_SIZE_WITH_MAPPING + 1) = 255
    /\ hdr.head.stream_count = 1 /\ hdr.head.coupled_count = 1
    /\ hdr.head.channel_mapping_table = ZeroTable

\* decoded frames whose samples are examined one by one
MaxFrames == 6

\* the identification header of a stream with a silent third channel: family
\* 1, one coupled stream, mapping table 0, 1, 255
SilentChannelHead == parse_opus_head(PktHeadSurround, ZeroHead).head

\* the decoder holds the header with the silent third channel
HoldsSilentChannelHead(d) == d.opus_head_ = << SilentChannelHead >>

\* call c hands the header with the silent channel, alone on the first page of
\* the stream, to a decoder that has seen no header yet; the codec can be built
OffersSilentChannelHead(d, c) ==
    /\ d.state_ = STATE_EXPECT_OPUS_HEAD /\ ~d.has_seen_opus_head_ /\ ~d.eos_seen_
    /\ d.packets_on_current_page_ = 0 /\ c.cont_flag = d.expect_continued_packet_
    /\ c.input /\ c.input_len > 0
    /\ Delivers(c) /\ Catalogue[c.pkt] = PktHeadSurround
    /\ c.bos /\ c.granule = 0 /\ c.last_on_page /\ c.create_ok

\* the frames of a call's output that are examined: the first MaxFrames and
\* the last one
ExaminedFrames(samples) ==
    { i \in 0..(MaxFrames - 1) : i < samples } \cup { i \in { samples - 1 } : i >= 0 }

\* the third channel of every examined frame that call c reports is zero: the
\* element the memmove of apply_pre_skip brings to index 3 * i + 2 was written
\* as 0 by the codec
ThirdChannelSilent(d, c) ==
    LET decoded_samples == opus_packet_get_nb_samples(Catalogue[c.pkt], d.sample_rate_)
        from == apply_pre_skip_memmove(d, decoded_samples, d.output_channels_)
    IN
    \A i \in ExaminedFrames(decode(d, c).samples_decoded) :
        opus_multistream_decode_writes_zero(d.opus_head_[1], 3 * i + 2 + from, 3)

AllConsumed == run.off = StreamLen(run.stream)

\* C28 as stated: the loop that passes the unconsumed bytes, advances by
\* bytes_consumed and retries after OUTPUT_BUFFER_TOO_SMALL with a buffer of
\* get_required_output_buffer_size() bytes eventually consumes every byte of
\* a well-formed stream, whatever the chunk size.
C28_ForwardProgress == <>AllConsumed

\* The loop stands in state DECODING with an empty buffer and bytes left to
\* feed: its next call returns OUTPUT_BUFFER_TOO_SMALL without writing
\* bytes_consumed or samples_decoded and without a packet being looked at, and
\* get_required_output_buffer_size() returns the 0 bytes the buffer already
\* has.
C28_Witness ==
    /\ ~loop.done /\ loop.chunk = 1 /\ loop.cap = 0
    /\ run.off < StreamLen(run.stream)
    /\ dec.state_ = STATE_DECODING
    /\ \E r \in { decode(dec, Call(LoopArgs(1, loop.cap), NoAnswer)) } :
           /\ r.result = OGG_OPUS_OUTPUT_BUFFER_TOO_SMALL
           /\ ~r.written /\ ~r.consulted
           /\ r.d = dec
           /\ get_required_output_buffer_size(r.d) = loop.cap

\* parse_opus_head finds no error in the packet
ParsesWithoutError(packet) == parse_opus_head(packet, ZeroHead).result = OPUS_HEADER_OK

\* the packet of call c carries the begin-of-stream flag and the OpusHead
\* signature, parses without error and has granule position 0
HeadPacketValid(c) ==
    /\ c.bos
    /\ is_opus_head(Catalogue[c.pkt])
    /\ ParsesWithoutError(Catalogue[c.pkt])
    /\ c.granule = 0

C30_TagsSignatureAndSize ==
    \A c \in Calls(dec) :
        (/\ dec.state_ = STATE_EXPECT_OPUS_TAGS /\ Delivers(c)
         /\ \/ ~is_opus_tags(Catalogue[c.pkt])
            \/ Catalogue[c.pkt].length < min_opus_tags_size)
            => /\ decode(dec, c).result = OGG_OPUS_INPUT_INVALID
               /\ decode(dec, c).d.state_ = STATE_EXPECT_OPUS_TAGS

\* A decoder that waits for its first comment header is offered, alone on a
\* page with granule position 0, a packet of 12 bytes with the OpusTags
\* signature, and in another call an audio packet: both are refused and the
\* decoder still waits.
C30_Witness ==
    /\ dec.state_ = STATE_EXPECT_OPUS_TAGS /\ ~dec.has_seen_opus_tags_
    /\ dec.packets_on_current_page_ = 0
    /\ \E c \in Calls(dec) :
           /\ Delivers(c) /\ Catalogue[c.pkt] = PktTagsShort
           /\ c.last_on_page /\ c.granule = 0 /\ ~ContinuationRefused(dec, c)
           /\ decode(dec, c).result = OGG_OPUS_INPUT_INVALID
           /\ decode(dec, c).d.state_ = STATE_EXPECT_OPUS_TAGS
    /\ \E c \in Calls(dec) :
           /\ Delivers(c) /\ Catalogue[c.pkt] = PktAudio20ms
           /\ ~ContinuationRefused(dec, c)
           /\ decode(dec, c).result = OGG_OPUS_INPUT_INVALID
           /\ decode(dec, c).d.state_ = STATE_EXPECT_OPUS_TAGS

(***************************************************************************)
(* C31: audio packets of a refused length.                                 *)
(***************************************************************************)
\* the packet of call c is empty or longer than max_opus_packet_size
RefusedLength(c) ==
    \/ Catalogue[c.pkt].length = 0
    \/ Catalogue[c.pkt].length > max_opus_packet_size

\* C31: in DECODING a call that delivers an audio packet of length 0 or of more
\* than 61440 bytes returns INPUT_INVALID with samples_decoded = 0; the codec is
\* not asked about the packet (the required size, which is stored from the
\* codec's sample count, stays as it was, and the result is never DECODE_ERROR),
\* and samples_decoded_total_, last_granule_position_ and
\* first_audio_page_samples_ keep their values.
C31_RefusedLengthInputInvalid ==
    \A c \in Calls(dec) :
        (dec.state_ = STATE_DECODING /\ Delivers(c) /\ RefusedLength(c))
            => /\ decode(dec, c).result = OGG_OPUS_INPUT_INVALID
               /\ decode(dec, c).written /\ decode(dec, c).samples_decoded = 0
               /\ decode(dec, c).d.last_required_buffer_bytes_
                      = dec.last_required_buffer_bytes_
               /\ decode(dec, c).d.samples_decoded_total_ = dec.samples_decoded_total_
               /\ decode(dec, c).d.last_granule_position_ = dec.last_granule_position_
               /\ decode(dec, c).d.first_audio_page_samples_
                      = dec.first_audio_page_samples_

\* A decoder that has decoded audio (a stored granule position, a running total)
\* is offered, with room for a frame and a page flag that matches, an empty
\* packet and in another call a packet of 61441 bytes.
C31_Witness ==
    /\ dec.state_ = STATE_DECODING
    /\ dec.samples_decoded_total_ > 0 /\ dec.last_granule_position_ > 0
    /\ \E c \in Calls(dec) :
           /\ Delivers(c) /\ Catalogue[c.pkt] = PktAudioEmpty
           /\ c.output_size = 5760 /\ ~ContinuationRefused(dec, c)
           /\ decode(dec, c).result = OGG_OPUS_INPUT_INVALID
    /\ \E c \in Calls(dec) :
           /\ Delivers(c) /\ Catalogue[c.pkt] = PktAudioHuge
           /\ c.output_size = 5760 /\ ~ContinuationRefused(dec, c)
           /\ decode(dec, c).result = OGG_OPUS_INPUT_INVALID

(***************************************************************************)
(* Following a page sequence.  The packet source is outside the            *)
(* repository; here it is the page metadata the decoder reads of it        *)
(* (OggPacket::is_last_on_page, currentPageHasContinuedFlag and            *)
(* previousPageEndedWithContinuedPacket), for page sequences in which a    *)
(* page has the continued flag exactly when the page before it ended in    *)
(* the middle of a packet.  page.first tells whether the next packet is    *)
(* the first one handed out from its page, page.cont is the continued flag *)
(* of the page the last packet came from, page.ended_mid tells whether the *)
(* last finished page ended in the middle of a packet, and page.checks     *)
(* counts the comparisons process_packet has made on packets of the page   *)
(* the last packet came from.                                              *)
(***************************************************************************)
\* currentPageHasContinuedFlag() while a packet is processed: the flag of the
\* page the packet was completed on.  gap: pages on which no packet is
\* completed lie between the last finished page and this one; such a page ends
\* in the middle of a packet, so the page after it has the flag.
currentPageHasContinuedFlag(pg, gap) ==
    IF pg.first THEN (gap \/ pg.ended_mid) ELSE pg.cont

\* previousPageEndedWithContinuedPacket() as update_page_tracking reads it at the
\* last packet of a page: whether that page ends in the middle of a packet
previousPageEndedWithContinuedPacket(last, mid) == last /\ mid

\* the packets of the page sequences: both headers, a frame, a frame the codec
\* refuses and an empty packet
PagePackets == { p \in 1..Len(Catalogue) :
                   Catalogue[p] \in { PktHeadStereo, PktTags, PktAudio20ms,
                                      PktAudioCorrupt, PktAudioEmpty } }

\* output_size of the calls: too small for a 20 ms frame, and large enough
PageSizes == {1000, 5760}

PageArgs(size) == [input |-> TRUE, input_len |-> 1, output |-> TRUE, output_size |-> size]

\* the packet source hands out packet p as packet number n + 1 of the stream:
\* the first packet carries the begin-of-stream flag, no packet carries a
\* granule position or the end-of-stream flag
PageDelivery(pg, n, p, last, mid, gap) ==
    Answer(OGG_OK, 1, p, 0, n = 0, FALSE, last, currentPageHasContinuedFlag(pg, gap),
           previousPageEndedWithContinuedPacket(last, mid), TRUE)

\* the page sequence after a packet was handed to decoder d
PageAfter(pg, d, last, mid, gap) ==
    [first |-> last,
     cont |-> currentPageHasContinuedFlag(pg, gap),
     ended_mid |-> IF last THEN mid ELSE pg.ended_mid,
     checks |-> (IF pg.first THEN 0 ELSE pg.checks)
                    + (IF d.packets_on_current_page_ = 0 THEN 1 ELSE 0)]

InitPage ==
    /\ \E cfg \in Configs : dec = NewDecoder(cfg[1], cfg[2], cfg[3])
    /\ fed = 0
    /\ reported = 0
    /\ run = NoRun
    /\ hdr = NoParse
    /\ loop = NoLoop
    /\ page = NoPage /\ peer = NoPeer /\ tls = NoTls

\* one call of decode() to which the packet source hands the next packet of the
\* page sequence
DeliverPacket ==
    /\ fed < MaxPackets
    /\ \E p \in PagePackets, size \in PageSizes, last \in BOOLEAN, mid \in BOOLEAN,
          gap \in BOOLEAN :
           /\ mid => last
           /\ gap => (page.first /\ fed > 0)
           /\ \E c \in { Call(PageArgs(size), PageDelivery(page, fed, p, last, mid, gap)) } :
              \E r \in { decode(dec, c) } :
                  /\ dec' = r.d
                  /\ reported' = reported + r.samples_decoded
                  /\ page' = PageAfter(page, dec, last, mid, gap)
    /\ fed' = fed + 1
    /\ UNCHANGED <<run, hdr, loop, peer, tls>>

\* one call of decode() during which the packet source skips a packet that is
\* too large for it: a packet that begins a page and is alone on the page it
\* ends on (gap: it ends on a later page than it begins on)
SkipPacket ==
    /\ fed < MaxPackets /\ fed > 0
    /\ page.first /\ ~page.ended_mid
    /\ \E size \in PageSizes :
       \E c \in { Call(PageArgs(size),
                       Answer(OGG_PACKET_SKIPPED, 1, NoPacket, 0, FALSE, FALSE, FALSE,
                              FALSE, FALSE, FALSE)) } :
       \E r \in { decode(dec, c) } :
           /\ dec' = r.d
           /\ reported' = reported + r.samples_decoded
    /\ page' = [page EXCEPT !.first = TRUE, !.ended_mid = FALSE, !.checks = 0]
    /\ fed' = fed + 1
    /\ UNCHANGED <<run, hdr, loop, peer, tls>>

NextPage == DeliverPacket \/ SkipPacket

SpecPage == InitPage /\ [][NextPage]_vars

(***************************************************************************)
(* C32, C33, C34: the page bookkeeping and the continued-packet check.     *)
(***************************************************************************)
\* C34: packets_on_current_page_ is 0 exactly when the next packet handed out
\* is the first one of its page, after any sequence of decode() calls.
C34_PageCounterInStep == (dec.packets_on_current_page_ = 0) <=> page.first

\* After both headers, each alone on its page, a page brings two frames: the
\* first is decoded, the second, the last of the page, is refused by the codec
\* (DECODE_ERROR).  The next packet is the first of its page and the counter
\* is 1.
C34_Witness ==
    /\ dec.state_ = STATE_DECODING /\ fed = 4
    /\ dec.samples_decoded_total_ = 960
    /\ page.first /\ ~page.ended_mid
    /\ dec.packets_on_current_page_ = 1

\* C32: the continued-packet comparison of process_packet is made at the first
\* packet handed out from each page and only then: once a packet of a page has
\* been processed, exactly one comparison has been made on that page.
C32_ComparedOncePerPage ==
    /\ page.checks <= 1
    /\ ~page.first => page.checks = 1

\* Two frames of one page have been decoded after both headers: the comparison
\* was made at the first of them only.
C32_Witness ==
    /\ dec.state_ = STATE_DECODING /\ fed = 4
    /\ dec.samples_decoded_total_ = 1920
    /\ ~page.first /\ dec.packets_on_current_page_ = 2
    /\ page.checks = 1

\* the deliveries DeliverPacket can make in this state: the packet, the size of
\* the caller's buffer and the page position of the packet
PageCalls ==
    { Call(PageArgs(x[2]), PageDelivery(page, fed, x[1], x[3], x[4], x[5])) :
        x \in { y \in PagePackets \X PageSizes \X BOOLEAN \X BOOLEAN \X BOOLEAN :
                  /\ fed < MaxPackets
                  /\ y[4] => y[3]
                  /\ y[5] => (page.first /\ fed > 0) } }

\* C33: in a page sequence in which a page has the continued flag exactly when
\* the page before it ended in the middle of a packet, the continued-packet
\* check of process_packet refuses no packet.
C33_WellFormedPagesPass == \A c \in PageCalls : ~ContinuationRefused(dec, c)

\* A page ended in the middle of a packet after its last complete packet was
\* processed; the packet that continues on the next page, which has the
\* continued flag, passes the check.
C33_Witness ==
    /\ dec.state_ = STATE_DECODING
    /\ page.first /\ page.ended_mid
    /\ dec.packets_on_current_page_ = 0 /\ dec.expect_continued_packet_
    /\ \E c \in PageCalls :
           /\ c.cont_flag /\ ~ContinuationRefused(dec, c)
           /\ decode(dec, c).result = OGG_OPUS_OK
           /\ decode(dec, c).samples_decoded > 0

(***************************************************************************)
(* C35: the codec variant of a stream.                                     *)
(***************************************************************************)
\* C35: in EXPECT_OPUS_HEAD no codec handle exists; in EXPECT_OPUS_TAGS and in
\* DECODING exactly one exists, the mono/stereo one exactly when the header's
\* mapping family is 0 and the multistream one otherwise, created with the
\* constructor's channels argument when that is not 0 and with the header's
\* channel_count otherwise; no decode() call made outside EXPECT_OPUS_HEAD
\* changes the handles, and reset() leaves none.
C35_CodecVariantFixed ==
    /\ dec.state_ = STATE_EXPECT_OPUS_HEAD
           => ~dec.opus_decoder_ /\ ~dec.opus_ms_decoder_ /\ dec.codec_channels_ = 0
    /\ dec.state_ # STATE_EXPECT_OPUS_HEAD
           => /\ dec.opus_decoder_ # dec.opus_ms_decoder_
              /\ dec.opus_decoder_ <=> (dec.opus_head_[1].channel_mapping = 0)
              /\ dec.codec_channels_ = IF dec.channels_ # 0 THEN dec.channels_
                                       ELSE dec.opus_head_[1].channel_count
              /\ \A c \in Calls(dec) :
                     /\ decode(dec, c).d.opus_decoder_ = dec.opus_decoder_
                     /\ decode(dec, c).d.opus_ms_decoder_ = dec.opus_ms_decoder_
                     /\ decode(dec, c).d.codec_channels_ = dec.codec_channels_
                     /\ decode(dec, c).d.opus_head_ = dec.opus_head_
    /\ ~HasCodec(reset(dec)) /\ reset(dec).codec_channels_ = 0

\* A decoder constructed with channels = 1 has taken the three-channel header
\* of mapping family 1 and decodes with the multistream codec, created for one
\* channel; it has decoded audio.
C35_Witness ==
    /\ dec.state_ = STATE_DECODING
    /\ dec.opus_ms_decoder_ /\ ~dec.opus_decoder_
    /\ dec.channels_ = 1 /\ dec.codec_channels_ = 1
    /\ dec.opus_head_[1].channel_mapping = 1 /\ dec.opus_head_[1].channel_count = 3
    /\ dec.samples_decoded_total_ > 0

(***************************************************************************)
(* C36: decoders constructed with a rate the codec does not support.  The  *)
(* constructor takes any rate (it validates nothing); the calls are those  *)
(* of Spec.                                                                *)
(***************************************************************************)
\* constructor arguments with a sample_rate outside the five Opus rates
RateConfigs == { <<FALSE, 44100, 0>>, <<TRUE, 32000, 2>> }

InitRate ==
    /\ \E cfg \in RateConfigs : dec = NewDecoder(cfg[1], cfg[2], cfg[3])
    /\ fed = 0
    /\ reported = 0
    /\ run = NoRun
    /\ hdr = NoParse
    /\ loop = NoLoop
    /\ page = NoPage /\ peer = NoPeer /\ tls = NoTls

SpecRate == InitRate /\ [][Next]_vars

\* C36: while pre_skip_applied_ is not set and the header's pre_skip is not 0,
\* a call whose audio packet the codec decodes, on a decoder whose sample_rate_
\* is none of 8000, 12000, 16000, 24000, 48000, returns INPUT_INVALID with
\* samples_decoded = 0 and leaves samples_decoded_total_ and pre_skip_applied_
\* as they were.
C36_UnsupportedRateAtPreSkip ==
    \A c \in Calls(dec) :
        (/\ DecodesAudio(dec, c)
         /\ ~dec.pre_skip_applied_ /\ dec.opus_head_[1].pre_skip > 0
         /\ ~ValidSampleRate(dec.sample_rate_))
            => /\ decode(dec, c).result = OGG_OPUS_INPUT_INVALID
               /\ decode(dec, c).written /\ decode(dec, c).samples_decoded = 0
               /\ decode(dec, c).d.samples_decoded_total_ = dec.samples_decoded_total_
               /\ decode(dec, c).d.pre_skip_applied_ = dec.pre_skip_applied_

\* A decoder constructed for 44100 Hz holds a header with pre_skip 312 and is
\* handed a frame that passes the page and granule checks: the call is refused
\* by apply_pre_skip.
C36_Witness ==
    /\ dec.state_ = STATE_DECODING /\ dec.sample_rate_ = 44100
    /\ ~dec.pre_skip_applied_ /\ dec.opus_head_[1].pre_skip = 312
    /\ \E c \in Calls(dec) :
           /\ DecodesAudio(dec, c) /\ c.granule = 0
           /\ Catalogue[c.pkt] = PktAudio20ms
           /\ decode(dec, c).result = OGG_OPUS_INPUT_INVALID
           /\ decode(dec, c).d.last_required_buffer_bytes_ = 882 * 2 * SizeofInt16

(***************************************************************************)
(* C37: two instances driven by one thread in any order.  All state of an  *)
(* OggOpusDecoder is in its non-static data members (the class has no      *)
(* static member and the translation units no mutable variable at          *)
(* namespace scope), so a member function called on one instance reads and *)
(* writes that instance's record only.  peer.other is the second instance, *)
(* peer.alone the two instances as they are when each is given its own     *)
(* calls only, peer.same tells whether every call so far returned what the *)
(* same call returned to the instance driven alone, and peer.fed counts    *)
(* the packets handed to each instance.                                    *)
(***************************************************************************)
\* the two instances of the process
Instances == <<dec, peer.other>>

\* the instances after a member function called on instance i left it as d
StoreInstance_shared_codec(mem, i, d) ==
    [j \in 1..2 |-> IF j = i THEN d
                    ELSE [mem[j] EXCEPT !.opus_decoder_ = d.opus_decoder_,
                                        !.opus_ms_decoder_ = d.opus_ms_decoder_]]

StoreInstance(mem, i, d) == [mem EXCEPT ![i] = d]

\* the calls made on an instance: a non-null input and a buffer with room for
\* a frame; the packet source needs more data or hands out a header or a
\* frame, and the codec constructor succeeds or fails
PairCalls(d) ==
    { c \in Calls(d) :
        /\ c.input /\ c.input_len = 1 /\ c.output /\ c.output_size = 5760
        /\ c.status \in {OGG_OK, OGG_NEED_MORE_DATA}
        /\ c.consumed = c.input_len
        /\ Delivers(c) =>
               /\ Catalogue[c.pkt] \in {PktHeadStereo, PktHeadSurround, PktTags, PktAudio20ms}
               /\ ~c.eos /\ c.granule \in {0, 960}
               /\ (c.last_on_page /\ ~c.prev_ended) /\ ~c.cont_flag }

InitPair ==
    /\ \E a \in Configs, b \in Configs :
           /\ dec = NewDecoder(a[1], a[2], a[3])
           /\ peer = [other |-> NewDecoder(b[1], b[2], b[3]),
                      alone |-> <<NewDecoder(a[1], a[2], a[3]), NewDecoder(b[1], b[2], b[3])>>,
                      same |-> TRUE,
                      fed |-> <<0, 0>>]
    /\ fed = 0
    /\ reported = 0
    /\ run = NoRun
    /\ hdr = NoParse
    /\ loop = NoLoop
    /\ page = NoPage /\ tls = NoTls

\* decode() called on one of the two instances
PairDecode ==
    /\ \E i \in 1..2 :
       \E c \in PairCalls(Instances[i]) :
           /\ Delivers(c) => peer.fed[i] < MaxPackets - 1
           /\ \E r \in { decode(Instances[i], c) } :
              \E ra \in { decode(peer.alone[i], c) } :
              \E mem \in { StoreInstance(Instances, i, r.d) } :
                  /\ dec' = mem[1]
                  /\ peer' = [other |-> mem[2],
                              alone |-> [peer.alone EXCEPT ![i] = ra.d],
                              same |-> peer.same /\ Observed(r) = Observed(ra),
                              fed |-> [peer.fed EXCEPT ![i] =
                                          IF Delivers(c) THEN @ + 1 ELSE @]]
    /\ UNCHANGED <<fed, reported, run, hdr, loop, page, tls>>

\* reset() called on one of the two instances
PairReset ==
    /\ \E i \in 1..2 :
       \E mem \in { StoreInstance(Instances, i, reset(Instances[i])) } :
           /\ dec' = mem[1]
           /\ peer' = [peer EXCEPT !.other = mem[2],
                                   !.alone[i] = reset(@),
                                   !.fed[i] = 0]
    /\ UNCHANGED <<fed, reported, run, hdr, loop, page, tls>>

NextPair == PairDecode \/ PairReset

SpecPair == InitPair /\ [][NextPair]_vars

MaxThreads == 2

Threads == 1..MaxThreads

InitTls ==
    /\ \E cfg \in Configs : dec = NewDecoder(cfg[1], cfg[2], cfg[3])
    /\ fed = 0
    /\ reported = 0
    /\ run = NoRun
    /\ hdr = NoParse
    /\ loop = NoLoop
    /\ page = NoPage /\ peer = NoPeer
    /\ tls = [init_once |-> "PTHREAD_ONCE_INIT",
              tls_initialized |-> 0,
              keys |-> 0,
              scratch_ptr |-> [t \in Threads |-> 0],
              global_stack |-> [t \in Threads |-> 0],
              specific |-> [t \in Threads |-> 0],
              pc |-> [t \in Threads |-> "idle"],
              freed |-> [b \in Threads |-> 0],
              used |-> [b \in Threads |-> {}]]

\* _opus_alloc_and_register_pseudostack, up to its call of
\* register_pseudostack_for_cleanup: the first use of the pseudostack in a
\* thread (its global_stack is NULL) allocates the buffer
opus_alloc_and_register_pseudostack ==
    /\ \E t \in Threads :
           /\ tls.pc[t] = "idle" /\ tls.global_stack[t] = 0
           /\ tls' = [tls EXCEPT !.scratch_ptr[t] = t, !.pc[t] = "pthread_once"]
    /\ UNCHANGED <<dec, fed, reported, run, hdr, loop, page, peer>>

\* pthread_once(&init_once, init_pthread_key) entered by a thread: the first
\* thread to arrive runs init_pthread_key, a thread that arrives while it runs
\* waits, a thread that arrives later goes on
pthread_once ==
    /\ \E t \in Threads :
           /\ tls.pc[t] = "pthread_once"
           /\ tls.init_once # "running"
           /\ tls' = IF tls.init_once = "PTHREAD_ONCE_INIT"
                     THEN [tls EXCEPT !.init_once = "running",
                                      !.pc[t] = "init_pthread_key"]
                     ELSE [tls EXCEPT !.pc[t] = "registered"]
    /\ UNCHANGED <<dec, fed, reported, run, hdr, loop, page, peer>>

\* init_pthread_key: pthread_key_create returns 0 or an error code
init_pthread_key ==
    /\ \E t \in Threads :
           /\ tls.pc[t] = "init_pthread_key"
           /\ \E ret \in {0, 1} :
                  tls' = [tls EXCEPT !.keys = IF ret = 0 THEN @ + 1 ELSE @,
                                     !.tls_initialized = IF ret = 0 THEN 1 ELSE @,
                                     !.init_once = "done",
                                     !.pc[t] = "registered"]
    /\ UNCHANGED <<dec, fed, reported, run, hdr, loop, page, peer>>

\* what register_pseudostack_for_cleanup leaves under opus_cleanup_key for the
\* calling thread, after pthread_once has returned: the buffer when the key
\* exists and pthread_setspecific returned 0 (ret), the value as it was otherwise
register_value(initialized, ret, buffer, old) ==
    IF initialized = 0 THEN old
    ELSE IF ret # 0 THEN old
    ELSE buffer

\* register_pseudostack_for_cleanup after pthread_once, and the return of
\* _opus_alloc_and_register_pseudostack into global_stack
register_pseudostack_for_cleanup ==
    /\ \E t \in Threads :
           /\ tls.pc[t] = "registered"
           /\ \E ret \in {0, 1} :
                  tls' = [tls EXCEPT
                            !.specific[t] = register_value(tls.tls_initialized, ret,
                                                           tls.scratch_ptr[t], @),
                            !.global_stack[t] = tls.scratch_ptr[t],
                            !.pc[t] = "ready"]
    /\ UNCHANGED <<dec, fed, reported, run, hdr, loop, page, peer>>

\* a codec call of a thread works in the buffer its global_stack points to
use_pseudostack ==
    /\ \E t \in Threads :
           /\ tls.pc[t] = "ready"
           /\ t \notin tls.used[tls.global_stack[t]]
           /\ tls' = [tls EXCEPT !.used[tls.global_stack[t]] = @ \cup {t}]
    /\ UNCHANGED <<dec, fed, reported, run, hdr, loop, page, peer>>

\* a thread exits outside any codec call: the system calls
\* pseudostack_destructor with the thread's value under the key, when a key
\* exists and the value is not NULL
pseudostack_destructor ==
    /\ \E t \in Threads :
           /\ tls.pc[t] \in {"idle", "ready"}
           /\ tls' = IF tls.keys > 0 /\ tls.specific[t] # 0
                     THEN [tls EXCEPT !.freed[tls.specific[t]] = @ + 1,
                                      !.specific[t] = 0,
                                      !.pc[t] = "exited"]
                     ELSE [tls EXCEPT !.pc[t] = "exited"]
    /\ UNCHANGED <<dec, fed, reported, run, hdr, loop, page, peer>>

NextTls ==
    \/ opus_alloc_and_register_pseudostack
    \/ pthread_once
    \/ init_pthread_key
    \/ register_pseudostack_for_cleanup
    \/ use_pseudostack
    \/ pseudostack_destructor

SpecTls == InitTls /\ [][NextTls]_vars

\* thread t has allocated its buffer
Allocated(t) == tls.scratch_ptr[t] # 0

\* C38: when several threads make their first use of the pseudostack at the
\* same time, the cleanup key is created exactly once (never twice, and it
\* exists once a thread is past pthread_once), every thread that is ready works
\* in a buffer of its own that no other thread uses, and every allocated buffer
\* is freed exactly once, when the thread that owns it exits (never before, and
\* not left allocated after).
C38_PseudostackPerThread ==
    /\ tls.keys <= 1
    /\ \A t \in Threads : tls.pc[t] \in {"registered", "ready"} => tls.keys = 1
    /\ \A t \in Threads :
           tls.pc[t] = "ready"
               => /\ tls.global_stack[t] # 0
                  /\ \A u \in Threads \ {t} : tls.global_stack[u] # tls.global_stack[t]
    /\ \A b \in Threads : tls.used[b] \subseteq {b}
    /\ \A b \in Threads :
           Allocated(b) => /\ tls.freed[b] <= 1
                           /\ (tls.freed[b] = 1) <=> (tls.pc[b] = "exited")

\* Two threads made their first use while the other was inside the allocation,
\* the key was made once, each worked in its own buffer, and both have exited
\* with their buffers freed once.
C38_Witness ==
    /\ tls.keys = 1 /\ tls.tls_initialized = 1
    /\ \A t \in Threads :
           /\ tls.pc[t] = "exited" /\ Allocated(t)
           /\ tls.used[t] = {t} /\ tls.freed[t] = 1

(***************************************************************************)
(* C39: samples and result codes.                                          *)
(***************************************************************************)
\* C39: a decode() call that gets past the checks made before the packet source
\* is consulted and returns a result other than OK reports samples_decoded = 0;
\* samples_decoded > 0 is reported only by a call made in DECODING, with both
\* header latches set, that returns OK.
C39_NoSamplesWithError ==
    \A c \in Calls(dec) :
        decode(dec, c).written
            => /\ decode(dec, c).result # OGG_OPUS_OK
                      => decode(dec, c).samples_decoded = 0
               /\ decode(dec, c).samples_decoded > 0
                      => /\ dec.state_ = STATE_DECODING
                         /\ dec.has_seen_opus_head_ /\ dec.has_seen_opus_tags_
                         /\ decode(dec, c).result = OGG_OPUS_OK

\* A decoder with a stored granule position of 960 is handed a frame the codec
\* decodes: with granule position 480 the call is refused and reports no
\* samples, with an unset one it returns OK and reports the frame.
C39_Witness ==
    /\ dec.state_ = STATE_DECODING /\ dec.last_granule_position_ = 960
    /\ \E c \in Calls(dec) :
           /\ DecodesAudio(dec, c) /\ c.granule = 480
           /\ decode(dec, c).result = OGG_OPUS_INPUT_INVALID
           /\ decode(dec, c).samples_decoded = 0
    /\ \E c \in Calls(dec) :
           /\ DecodesAudio(dec, c) /\ c.granule = 0
           /\ decode(dec, c).result = OGG_OPUS_OK
           /\ decode(dec, c).samples_decoded > 0

(***************************************************************************)
(* C40: the caller's buffer bounds the output.                             *)
(***************************************************************************)
\* C40: output never exceeds the caller's buffer.  A decode() call that returns
\* OK with samples_decoded > 0 reports at most output_size bytes of samples
\* (samples_decoded x output channels x 2 <= output_size); in DECODING the
\* output channel count, the divisor of the frame ceiling, is at least 1; the
\* frame ceiling handed to the codec for a buffer of output_size bytes is
\* floor(output_size / (channels x 2)), and the frame the codec decodes into
\* the buffer is no longer than that ceiling.
C40_OutputWithinBuffer ==
    /\ \A c \in Calls(dec) :
           (decode(dec, c).result = OGG_OPUS_OK /\ decode(dec, c).samples_decoded > 0)
               => decode(dec, c).samples_decoded * dec.output_channels_ * SizeofInt16
                      <= c.output_size
    /\ dec.state_ = STATE_DECODING
           => /\ dec.output_channels_ >= 1
              /\ \A size \in OutputSizes :
                     max_frame_size_of(size, dec.output_channels_)
                         = size \div (dec.output_channels_ * SizeofInt16)
              /\ \A c \in Calls(dec) :
                     DecodesAudio(dec, c)
                         => opus_packet_get_nb_samples(Catalogue[c.pkt], dec.sample_rate_)
                                <= max_frame_size_of(c.output_size, dec.output_channels_)

\* A three-channel stream decoded into a buffer of 5760 bytes: the frame ceiling
\* is 960 samples per channel, a 20 ms frame of 960 samples fills the buffer
\* exactly, and the call returns OK with samples reported.
C40_Witness ==
    /\ dec.state_ = STATE_DECODING /\ dec.output_channels_ = 3
    /\ \E c \in Calls(dec) :
           /\ DecodesAudio(dec, c) /\ c.output_size = 5760
           /\ max_frame_size_of(c.output_size, dec.output_channels_) = 960
           /\ opus_packet_get_nb_samples(Catalogue[c.pkt], dec.sample_rate_) = 960
           /\ decode(dec, c).result = OGG_OPUS_OK
           /\ decode(dec, c).samples_decoded > 0
           /\ decode(dec, c).samples_decoded * 3 * SizeofInt16 <= c.output_size

====
